---------------------------- MODULE Spec2Model ----------------------------
(***************************************************************************)
(* Bot Arena backend: the match simulation engine.                         *)
(*                                                                         *)
(* One match of MAX_BOTS_PER_GAME entrants is played over three levels on  *)
(* a generated grid.  The engine is a set of async request handlers        *)
(* (Node.js): a handler runs without interruption between two `await`s,    *)
(* and handlers of different requests interleave at every `await`.  Each   *)
(* action below is one such uninterrupted piece of a handler: an awaited   *)
(* database call completes and the code after it runs up to the next       *)
(* await.                                                                  *)
(***************************************************************************)
EXTENDS Integers, Sequences, FiniteSets, TLC

(***************************************************************************)
(* Program constants                                                       *)
(***************************************************************************)
MAX_BOTS_PER_GAME == 10

COLLISION_PENALTY_SECONDS == 10

\* checkLevelComplete: timeLimitMs + 999999
SENTINEL_EXTRA_MS == 999999

ELIMINATION_MAP == <<2, 4, 3>>

\* JavaScript's Infinity (finishTime || Infinity): above every finite time,
\* absorbing under addition (see PlusMs).
Infinity == 2000000000

(***************************************************************************)
(* The Arena Templates (ArenaData) a match can be bound to: two small      *)
(* templates created through ArenaModel.create.  On the 1 x 2 grid the     *)
(* goal is one step from the start; the 3 x 3 grid is the smallest on      *)
(* which generateGrid can place an obstacle.  timeLimit is in seconds.     *)
(***************************************************************************)
Arenas ==
    { [gridRows |-> 1, gridCols |-> 2, obstacleCount |-> 0, timeLimit |-> 1],
      [gridRows |-> 3, gridCols |-> 3, obstacleCount |-> 1, timeLimit |-> 1] }

(***************************************************************************)
(* Bounds of the exploration                                               *)
(***************************************************************************)
\* bots that submit moves (the others stay idle and time out); the first
\* NumAgents of them play through the agent API (submitAgentMove), the
\* others through POST /api/game/:id/move
NumMovers == 2
NumAgents == 1
\* requests being handled at the same time
NumSlots == 2
\* moves accepted by processMove in one match, on an arena without
\* obstacles and on an arena with obstacles
MaxMoves == 4
MaxObstacleMoves == 2
\* the clock advances in steps of TickMs milliseconds
TickMs == 500
\* clock steps taken after a level's time limit was reached
MaxOvertimeTicks == 0

Bots == 1..MAX_BOTS_PER_GAME
Movers == 1..NumMovers
Agents == 1..NumAgents
Slots == 1..NumSlots
\* a registered bot that never joins the match
Stranger == MAX_BOTS_PER_GAME + 1
Null == 0
\* the absence of a GameState object (activeGames.get returned undefined)
NoState == [none |-> TRUE]

Pos(x, y) == [x |-> x, y |-> y]

Max(a, b) == IF a > b THEN a ELSE b
Min(a, b) == IF a < b THEN a ELSE b
Abs(a) == IF a < 0 THEN -a ELSE a

(***************************************************************************)
(* PathfindingService (A* search)                                          *)
(***************************************************************************)
heuristic(a, b) == Abs(a.x - b.x) + Abs(a.y - b.y)

\* grid[y][x]: 0 = empty, 1 = obstacle, 2 = start, 3 = end
Rows(grid) == Cardinality(DOMAIN grid)
Cols(grid) == Cardinality(DOMAIN grid[0])

isWalkable(grid, x, y) ==
    IF x < 0 \/ y < 0 \/ y >= Rows(grid) \/ x >= Cols(grid)
    THEN FALSE
    ELSE grid[y][x] # 1

\* Up, Down, Left, Right
directions == << [dx |-> 0, dy |-> -1], [dx |-> 0, dy |-> 1],
                 [dx |-> -1, dy |-> 0], [dx |-> 1, dy |-> 0] >>

\* neighbours to the right and below only (what C21 rules out)
getNeighborsForward(grid, node) ==
    SelectSeq(<< Pos(node.x, node.y + 1), Pos(node.x + 1, node.y) >>,
              LAMBDA p : isWalkable(grid, p.x, p.y))

\* A PathNode is [x, y, g, h, f, path]; path is the chain of parents from the
\* start node to the node itself (what reconstructPath returns).
getNeighbors(grid, node) ==
    LET cand == [i \in 1..4 |-> Pos(node.x + directions[i].dx,
                                    node.y + directions[i].dy)]
    IN  SelectSeq(cand, LAMBDA p : isWalkable(grid, p.x, p.y))

RECURSIVE findLowestFFrom(_, _, _, _)
findLowestFFrom(openSet, i, lowestIndex, lowestF) ==
    IF i > Len(openSet) THEN lowestIndex
    ELSE IF openSet[i].f < lowestF
         THEN findLowestFFrom(openSet, i + 1, i, openSet[i].f)
         ELSE IF openSet[i].f = lowestF /\ openSet[i].h < openSet[lowestIndex].h
              THEN findLowestFFrom(openSet, i + 1, i, lowestF)
              ELSE findLowestFFrom(openSet, i + 1, lowestIndex, lowestF)

\* the newest open node, whatever its f (what C22 rules out)
findLowestFLast(openSet) == Len(openSet)

\* index (from 1) of the open node with the lowest f, ties to the lower h
findLowestF(openSet) == findLowestFFrom(openSet, 2, 1, openSet[1].f)

RemoveAt(s, i) == SubSeq(s, 1, i - 1) \o SubSeq(s, i + 1, Len(s))

IndexOf(openSet, p) ==
    IF \E i \in 1..Len(openSet) : openSet[i].x = p.x /\ openSet[i].y = p.y
    THEN CHOOSE i \in 1..Len(openSet) :
            /\ openSet[i].x = p.x /\ openSet[i].y = p.y
            /\ \A j \in 1..(i - 1) : ~(openSet[j].x = p.x /\ openSet[j].y = p.y)
    ELSE 0

\* the loop over the neighbours of `current`: each is skipped, pushed or relaxed
RECURSIVE exploreNeighbors(_, _, _, _, _, _)
exploreNeighbors(openSet, closedSet, neighbors, k, current, end) ==
    IF k > Len(neighbors) THEN openSet
    ELSE
      LET nb == neighbors[k]
          tentativeG == current.g + 1
          existingIndex == IndexOf(openSet, nb)
          next ==
            IF nb \in closedSet THEN openSet
            ELSE IF existingIndex = 0
                 THEN Append(openSet,
                        [x |-> nb.x, y |-> nb.y, g |-> tentativeG,
                         h |-> heuristic(nb, end),
                         f |-> tentativeG + heuristic(nb, end),
                         path |-> Append(current.path, nb)])
                 ELSE IF tentativeG < openSet[existingIndex].g
                      THEN [openSet EXCEPT
                              ![existingIndex].g = tentativeG,
                              ![existingIndex].f = tentativeG + openSet[existingIndex].h,
                              ![existingIndex].path = Append(current.path, nb)]
                      ELSE openSet
      IN  exploreNeighbors(next, closedSet, neighbors, k + 1, current, end)

RECURSIVE aStarLoop(_, _, _, _)
aStarLoop(grid, openSet, closedSet, end) ==
    IF Len(openSet) = 0 THEN << >>
    ELSE
      LET currentIndex == findLowestF(openSet)
          current == openSet[currentIndex]
      IN  IF current.x = end.x /\ current.y = end.y
          THEN current.path
          ELSE
            LET open1 == RemoveAt(openSet, currentIndex)
                closed1 == closedSet \cup {Pos(current.x, current.y)}
                neighbors == getNeighbors(grid, current)
            IN  aStarLoop(grid,
                          exploreNeighbors(open1, closed1, neighbors, 1, current, end),
                          closed1, end)

\* the path from start to end, both included; << >> when there is none
findPath(grid, start, end) ==
    IF ~isWalkable(grid, start.x, start.y) \/ ~isWalkable(grid, end.x, end.y)
    THEN << >>
    ELSE aStarLoop(grid,
                   << [x |-> start.x, y |-> start.y, g |-> 0,
                       h |-> heuristic(start, end), f |-> heuristic(start, end),
                       path |-> << start >>] >>,
                   {}, end)

\* path.length > 0 ? path.length - 1 : -1
getPathLength(grid, start, end) ==
    LET path == findPath(grid, start, end)
    IN  IF Len(path) > 0 THEN Len(path) - 1 ELSE -1

\* a path check that accepts every grid (what C19 rules out)
hasPathAlways(grid, start, end) == TRUE

hasPath(grid, start, end) == Len(findPath(grid, start, end)) > 0

\* a validation that lets every destination through (what C10 rules out)
isValidMoveAny(from, to) == TRUE

isValidMove(from, to) ==
    LET dx == Abs(from.x - to.x)
        dy == Abs(from.y - to.y)
    IN  (dx = 1 /\ dy = 0) \/ (dx = 0 /\ dy = 1)

(***************************************************************************)
(* CollisionService                                                        *)
(***************************************************************************)
\* an obstacle check that never reports an obstacle (what C7 rules out)
checkObstacleCollisionNever(grid, position) == FALSE

checkObstacleCollision(grid, position) ==
    IF position.y < 0 \/ position.y >= Rows(grid)
       \/ position.x < 0 \/ position.x >= Cols(grid)
    THEN FALSE
    ELSE grid[position.y][position.x] = 1

checkBoundaryCollision(position, rows, cols) ==
    position.x < 0 \/ position.x >= cols \/ position.y < 0 \/ position.y >= rows

\* an occupancy check that never reports a blocking bot (what C8 rules out)
checkBotCollisionNever(positions, botId, newPosition) == Null

\* positions: the live cells of the bots that block (a map bot -> cell).  The id
\* of a bot other than botId standing on newPosition, or Null.
checkBotCollision(positions, botId, newPosition) ==
    LET blocking == {b \in DOMAIN positions : b # botId /\ positions[b] = newPosition}
    IN  IF blocking = {} THEN Null
        ELSE CHOOSE b \in blocking : \A c \in blocking : b <= c

(***************************************************************************)
(* GameService.generateGrid: the grids one call can return.  Math.random   *)
(* is a free choice of the cell drawn by each attempt.                     *)
(***************************************************************************)
emptyGrid(rows, cols) ==
    [y \in 0..(rows - 1) |->
        [x \in 0..(cols - 1) |->
            IF x = cols - 1 /\ y = rows - 1 THEN 3
            ELSE IF x = 0 /\ y = 0 THEN 2 ELSE 0]]

\* one attempt of the placement loop drawing cell (x, y): the grid after it
placeAttempt(grid, x, y) ==
    LET rows == Rows(grid)
        cols == Cols(grid)
        tentative == [grid EXCEPT ![y][x] = 1]
    IN  IF grid[y][x] # 0 THEN grid
        ELSE IF (x <= 1 /\ y <= 1) \/ (x >= cols - 2 /\ y >= rows - 2) THEN grid
        ELSE IF hasPath(tentative, Pos(0, 0), Pos(cols - 1, rows - 1))
             THEN tentative
             ELSE grid

\* the grids reachable from `grid` with `placed` obstacles placed so far: the
\* loop ends with placed = n, or earlier when the attempts run out on
\* rejected draws (a draw of the start cell is always rejected)
RECURSIVE generateFrom(_, _, _)
generateFrom(grid, placed, n) ==
    IF placed >= n THEN {grid}
    ELSE {grid} \cup
         UNION { generateFrom(placeAttempt(grid, c[1], c[2]), placed + 1, n) :
                   c \in { d \in (0..(Cols(grid) - 1)) \X (0..(Rows(grid) - 1)) :
                             placeAttempt(grid, d[1], d[2]) # grid } }

generateGrid(rows, cols, n) == generateFrom(emptyGrid(rows, cols), 0, n)

\* Math.floor(obstacleCount * (1 + (level - 1) * 0.3))
levelObstacleCount(obstacleCount, level) ==
    (obstacleCount * (10 + 3 * (level - 1))) \div 10

\* the grids startLevel can install for a level of an arena: it generates
\* again while the generated grid has no path
LevelGrids ==
    [a \in Arenas |->
        [level \in 1..3 |->
            { g \in generateGrid(a.gridRows, a.gridCols,
                                 levelObstacleCount(a.obstacleCount, level)) :
                Len(findPath(g, Pos(0, 0), Pos(a.gridCols - 1, a.gridRows - 1))) # 0 }]]

(***************************************************************************)
(* State                                                                   *)
(***************************************************************************)
VARIABLES
    arena,        \* game.arena: the Arena Template of the match
    game,         \* the Game row: status, currentLevel, winnerId; and onChain,
                  \* whether the arena contract has recorded the completion
    botGame,      \* the BotGame rows of the match, by bot id
    heap,         \* the GameState objects that are still referenced
    activeGames,  \* activeGames.get(gameId): a GameState object, or Null
    now,          \* Date.now()
    req,          \* the request being handled in each slot
    elimRuns,     \* per level, how many times eliminateBots has been applied
    nmoves,       \* the moves processMove has accepted so far
    gen,          \* the generateGrid call of a startLevel that is followed
                  \* attempt by attempt: its position, grid and counters
    call,         \* the PathfindingService call that is evaluated: its
                  \* arguments and, once it has returned, its result
    matches,      \* the Game table, the BotGame table and the activeGames
                  \* map when several matches are followed, and the last
                  \* operation that was applied to them
    totalWins     \* Bot.totalWins of every bot, counted from the creation
                  \* of the match (and no further than 2)

vars == <<arena, game, botGame, heap, activeGames, now, req, elimRuns, nmoves, gen,
         call, matches, totalWins>>

\* no generateGrid call is followed
NoGen == [pc |-> "none", grid |-> << >>, placed |-> 0, attempts |-> 0]

\* no PathfindingService call is evaluated
NoCall == [pc |-> "none", grid |-> << >>, start |-> Pos(0, 0), end |-> Pos(0, 0),
           path |-> << >>, length |-> 0, has |-> FALSE]

\* one match only is followed
NoMatches == [game |-> << >>, botGame |-> << >>, activeGames |-> << >>,
              last |-> [op |-> "none", gameId |-> 0]]

ObjIds == 1..(NumSlots + 1)

timeLimitMs == arena.timeLimit * 1000

Idle == [pc |-> "idle", kind |-> "none", bot |-> 0, new |-> Pos(0, 0),
         gs |-> Null, level |-> 0, rankings |-> << >>, winnerId |-> 0]

Has(m, k) == k \in DOMAIN m

MapSet(m, k, v) == [x \in (DOMAIN m) \cup {k} |-> IF x = k THEN v ELSE m[x]]

\* a + b in JavaScript numbers, for a finite b
PlusMs(a, b) == IF a = Infinity THEN Infinity ELSE a + b

\* objects no request and no map entry refers to are gone
Collect(h, active, r) ==
    [o \in ObjIds |->
        IF o = active \/ (\E s \in Slots : r[s].gs = o) THEN h[o] ELSE NoState]

FreeObj(h, active, r) ==
    CHOOSE o \in ObjIds :
        /\ Collect(h, active, r)[o] = NoState
        /\ \A o2 \in ObjIds : Collect(h, active, r)[o2] = NoState => o <= o2

\* a new request is handled in the first free slot
FreeSlot(s) == req[s].pc = "idle" /\ \A t \in Slots : t < s => req[t].pc # "idle"

\* the three assignments every step of a handler ends with
Commit(h, active, r) ==
    /\ req' = r
    /\ activeGames' = active
    /\ heap' = Collect(h, active, r)

(***************************************************************************)
(* GameModel.findById: participants ordered by position                    *)
(***************************************************************************)
participants(bg) ==
    LET S == DOMAIN bg
        before(a, b) == \/ bg[a].position < bg[b].position
                        \/ (bg[a].position = bg[b].position /\ a < b)
    IN  [i \in 1..Cardinality(S) |->
            CHOOSE b \in S : Cardinality({a \in S : before(a, b)}) = i - 1]

activeParticipants(bg) == SelectSeq(participants(bg), LAMBDA b : ~bg[b].eliminated)

Init ==
    /\ arena \in Arenas
    /\ game = [status |-> "WAITING", currentLevel |-> 1, winnerId |-> Null,
               onChain |-> FALSE]
    /\ botGame = [b \in 1..(MAX_BOTS_PER_GAME - 1) |->
                    [position |-> b, collisions |-> 0,
                     eliminated |-> FALSE, eliminatedAt |-> 0]]
    /\ heap = [o \in ObjIds |-> NoState]
    /\ activeGames = Null
    /\ now = 0
    /\ req = [s \in Slots |-> Idle]
    /\ elimRuns = [l \in 1..3 |-> 0]
    /\ nmoves = 0
    /\ gen = NoGen
    /\ call = NoCall
    /\ matches = NoMatches
    /\ totalWins = [b \in Bots |-> 0]

(***************************************************************************)
(* The clock                                                               *)
(***************************************************************************)
Tick ==
    /\ activeGames # Null
    /\ now - heap[activeGames].startTime < timeLimitMs + MaxOvertimeTicks * TickMs
    /\ now' = now + TickMs
    /\ UNCHANGED <<totalWins, matches, call, gen, arena, game, botGame, heap, activeGames, req, elimRuns, nmoves>>

(***************************************************************************)
(* GameService.processMove                                                 *)
(***************************************************************************)
\* checks that let a bot move on after it has finished (what C16 rules out)
processMoveChecksUnfinished(gameState, botId, newPosition) ==
    IF gameState = NoState THEN "state_not_found"
    ELSE IF ~Has(gameState.botPositions, botId) THEN "not_active"
    ELSE IF ~isValidMove(gameState.botPositions[botId], newPosition)
         THEN "invalid_move"
    ELSE IF checkBoundaryCollision(newPosition, Rows(gameState.grid),
                                   Cols(gameState.grid))
         THEN "out_of_bounds"
    ELSE "ok"

\* the checks made before the first await: the error thrown, or "ok"
processMoveChecks(gameState, botId, newPosition) ==
    IF gameState = NoState THEN "state_not_found"
    ELSE IF ~Has(gameState.botPositions, botId) THEN "not_active"
    ELSE IF Has(gameState.botFinishTimes, botId) THEN "already_finished"
    ELSE IF ~isValidMove(gameState.botPositions[botId], newPosition)
         THEN "invalid_move"
    ELSE IF checkBoundaryCollision(newPosition, Rows(gameState.grid),
                                   Cols(gameState.grid))
         THEN "out_of_bounds"
    ELSE "ok"

\* from the move counter to the position update, after the game was read:
\* the GameState object afterwards and what became of the move
processMoveCommit(gameState, botId, newPosition) ==
    LET moveNumber == (IF Has(gameState.moveCounters, botId)
                       THEN gameState.moveCounters[botId] ELSE 0) + 1
        counted == [gameState EXCEPT
                      !.moveCounters = MapSet(gameState.moveCounters, botId, moveNumber)]
        unfinished == [b \in (DOMAIN gameState.botPositions)
                               \ (DOMAIN gameState.botFinishTimes)
                         |-> gameState.botPositions[b]]
    IN  IF checkObstacleCollision(gameState.grid, newPosition)
        THEN [gs |-> counted, out |-> "collision"]
        ELSE IF checkBotCollision(unfinished, botId, newPosition) # Null
             THEN [gs |-> counted, out |-> "blocked"]
             ELSE [gs |-> [counted EXCEPT
                             !.botPositions = MapSet(gameState.botPositions, botId,
                                                     newPosition)],
                   out |-> "moved"]

\* after the move record was written: the finish, when the bot is on the goal
processMoveFinish(gameState, botId, newPosition, t) ==
    IF newPosition = gameState.endPosition
    THEN [gameState EXCEPT
            !.botFinishTimes = MapSet(gameState.botFinishTimes, botId,
                                      t - gameState.startTime)]
    ELSE gameState

\* processMove has returned: the caller goes on to checkLevelComplete, which
\* reads activeGames and awaits the game
afterProcessMove(r) ==
    IF activeGames = Null THEN Idle
    ELSE [r EXCEPT !.pc = "clc_await", !.gs = activeGames]

DirectionDelta(direction) ==
    CASE direction = "up" -> [dx |-> 0, dy |-> -1]
      [] direction = "down" -> [dx |-> 0, dy |-> 1]
      [] direction = "left" -> [dx |-> -1, dy |-> 0]
      [] direction = "right" -> [dx |-> 1, dy |-> 0]

translateDirection(position, direction) ==
    Pos(position.x + DirectionDelta(direction).dx,
        position.y + DirectionDelta(direction).dy)

\* activeGames.get(gameId)
CurrentState == IF activeGames = Null THEN NoState ELSE heap[activeGames]

\* the moves accepted in one match: fewer on an arena with obstacles
MoveBudget == IF arena.obstacleCount = 0 THEN MaxMoves ELSE MaxObstacleMoves

\* the start of processMove(gameId, botId, {toX, toY}) in slot s for a caller
\* of the given kind: a throw ends the request at once
StartMove(s, kind, botId, newPosition) ==
    /\ IF processMoveChecks(CurrentState, botId, newPosition) = "ok"
       THEN /\ nmoves < MoveBudget
            /\ nmoves' = nmoves + 1
            /\ Commit(heap, activeGames,
                      [req EXCEPT ![s] =
                         [Idle EXCEPT !.pc = "pm_await", !.kind = kind,
                                      !.bot = botId, !.new = newPosition,
                                      !.gs = activeGames]])
       ELSE UNCHANGED <<req, activeGames, heap, nmoves>>
    /\ UNCHANGED <<totalWins, matches, call, gen, arena, game, botGame, now, elimRuns>>

\* AgentGameService.submitAgentMove(gameId, botId, direction): it throws the
\* first two errors of processMove itself before it translates the direction
SubmitAgentMove(s, botId, direction) ==
    /\ FreeSlot(s)
    /\ IF processMoveChecks(CurrentState, botId, Pos(0, 0))
            \in {"state_not_found", "not_active"}
       THEN UNCHANGED vars
       ELSE StartMove(s, "agent", botId,
                      translateDirection(CurrentState.botPositions[botId], direction))

\* GameController.submitMove: POST /api/game/:id/move {botId, toX, toY}
SubmitMove(s, botId, toX, toY) ==
    /\ FreeSlot(s)
    /\ StartMove(s, "ctrl", botId, Pos(toX, toY))

\* processMove: the game was read; the move is counted and decided
PM_Resume(s) ==
    /\ req[s].pc = "pm_await"
    /\ LET r == req[s]
           done == processMoveCommit(heap[r.gs], r.bot, r.new)
           h2 == [heap EXCEPT ![r.gs] = done.gs]
       IN  CASE done.out = "collision" ->
                  Commit(h2, activeGames, [req EXCEPT ![s].pc = "pm_collide"])
             [] done.out = "blocked" ->
                  Commit(h2, activeGames,
                         [req EXCEPT ![s] = afterProcessMove([r EXCEPT !.gs = Null])])
             [] done.out = "moved" ->
                  Commit(h2, activeGames, [req EXCEPT ![s].pc = "pm_moved"])
    /\ UNCHANGED <<totalWins, matches, call, gen, arena, game, botGame, now, elimRuns, nmoves>>

\* a collision whose count is not written (what C11 rules out)
PM_CollideUncounted(s) ==
    /\ req[s].pc = "pm_collide"
    /\ Commit(heap, activeGames,
              [req EXCEPT ![s] = afterProcessMove([req[s] EXCEPT !.gs = Null])])
    /\ UNCHANGED <<totalWins, matches, call, gen, arena, game, botGame, now, elimRuns, nmoves>>

\* CollisionService.handleCollision and the collision's move record
PM_Collide(s) ==
    /\ req[s].pc = "pm_collide"
    /\ botGame' = [botGame EXCEPT ![req[s].bot].collisions = @ + 1]
    /\ Commit(heap, activeGames,
              [req EXCEPT ![s] = afterProcessMove([req[s] EXCEPT !.gs = Null])])
    /\ UNCHANGED <<totalWins, matches, call, gen, arena, game, now, elimRuns, nmoves>>

\* processMove: the move record was written; the finish is recorded
PM_Moved(s) ==
    /\ req[s].pc = "pm_moved"
    /\ LET r == req[s]
           h2 == [heap EXCEPT ![r.gs] = processMoveFinish(heap[r.gs], r.bot, r.new, now)]
       IN  Commit(h2, activeGames,
                  [req EXCEPT ![s] = afterProcessMove([r EXCEPT !.gs = Null])])
    /\ UNCHANGED <<totalWins, matches, call, gen, arena, game, botGame, now, elimRuns, nmoves>>

\* prisma.move.create rejects (the persistence sink is down): the await
\* throws, nothing in processMove catches it, and the request ends with an
\* error.  In the collision branch the collision was counted before.
PM_SinkFailed(s) ==
    /\ req[s].pc \in {"pm_moved", "pm_collide"}
    /\ botGame' = IF req[s].pc = "pm_collide"
                  THEN [botGame EXCEPT ![req[s].bot].collisions = @ + 1]
                  ELSE botGame
    /\ Commit(heap, activeGames, [req EXCEPT ![s] = Idle])
    /\ UNCHANGED <<totalWins, matches, call, gen, arena, game, now, elimRuns, nmoves>>

(***************************************************************************)
(* GameService.checkLevelComplete                                          *)
(***************************************************************************)
\* after the game was read, at time t: the GameState object afterwards and
\* the value returned
\* a completion check that ignores the time budget (what C13 rules out)
checkLevelCompleteNoTimeout(gameState, bg, t) ==
    [gs |-> gameState,
     complete |-> \A b \in DOMAIN bg :
                     bg[b].eliminated \/ Has(gameState.botFinishTimes, b)]

\* a completion check that assigns no finish times (what C14 rules out)
checkLevelCompleteNoSentinel(gameState, bg, t) ==
    [gs |-> gameState,
     complete |-> \/ \A b \in DOMAIN bg :
                        bg[b].eliminated \/ Has(gameState.botFinishTimes, b)
                  \/ t - gameState.startTime >= timeLimitMs]

checkLevelComplete(gameState, bg, t) ==
    LET active == {b \in DOMAIN bg : ~bg[b].eliminated}
        allFinished == \A b \in active : Has(gameState.botFinishTimes, b)
        timedOut == t - gameState.startTime >= timeLimitMs
        sentinel == [b \in active \cup DOMAIN gameState.botFinishTimes |->
                       IF Has(gameState.botFinishTimes, b)
                       THEN gameState.botFinishTimes[b]
                       ELSE timeLimitMs + SENTINEL_EXTRA_MS]
    IN  IF allFinished \/ timedOut
        THEN [gs |-> IF timedOut
                     THEN [gameState EXCEPT !.botFinishTimes = sentinel]
                     ELSE gameState,
              complete |-> TRUE]
        ELSE [gs |-> gameState, complete |-> FALSE]

\* checkLevelComplete resumes with the game; GameController.submitMove only
\* reports the value, checkAndHandleLevelTransition goes on to read the game
CLC_Resume(s) ==
    /\ req[s].pc = "clc_await"
    /\ LET r == req[s]
           res == checkLevelComplete(heap[r.gs], botGame, now)
           h2 == [heap EXCEPT ![r.gs] = res.gs]
       IN  IF res.complete /\ r.kind = "agent"
           THEN Commit(h2, activeGames,
                       [req EXCEPT ![s] = [r EXCEPT !.pc = "t_find", !.gs = Null]])
           ELSE Commit(h2, activeGames, [req EXCEPT ![s] = Idle])
    /\ UNCHANGED <<totalWins, matches, call, gen, arena, game, botGame, now, elimRuns, nmoves>>

\* checkAndHandleLevelTransition: the game was read, eliminateBots is called
\* with its current level and looks the GameState up
T_Find(s) ==
    /\ req[s].pc = "t_find"
    /\ IF activeGames = Null
       THEN Commit(heap, activeGames, [req EXCEPT ![s] = Idle])
       ELSE Commit(heap, activeGames,
                   [req EXCEPT ![s] = [req[s] EXCEPT !.pc = "el_await",
                                                     !.gs = activeGames,
                                                     !.level = game.currentLevel]])
    /\ UNCHANGED <<totalWins, matches, call, gen, arena, game, botGame, now, elimRuns, nmoves>>

(***************************************************************************)
(* GameService.eliminateBots                                               *)
(***************************************************************************)
\* a ranking time without the collision penalty (what C12 rules out)
totalTimeNoPenalty(gameState, bg, botId) ==
    IF Has(gameState.botFinishTimes, botId) /\ gameState.botFinishTimes[botId] # 0
    THEN gameState.botFinishTimes[botId]
    ELSE Infinity

\* (botFinishTimes.get(botId) || Infinity) + collisions * penalty * 1000
totalTime(gameState, bg, botId) ==
    LET finishTime == IF Has(gameState.botFinishTimes, botId)
                         /\ gameState.botFinishTimes[botId] # 0
                      THEN gameState.botFinishTimes[botId]
                      ELSE Infinity
    IN  PlusMs(finishTime, bg[botId].collisions * COLLISION_PENALTY_SECONDS * 1000)

\* Array.prototype.sort with the comparator a.totalTime - b.totalTime: stable
stableSort(sq) ==
    LET rank(i) == Cardinality({j \in 1..Len(sq) :
                       \/ sq[j].totalTime < sq[i].totalTime
                       \/ (sq[j].totalTime = sq[i].totalTime /\ j < i)})
    IN  [k \in 1..Len(sq) |-> sq[CHOOSE i \in 1..Len(sq) : rank(i) = k - 1]]

eliminationRankings(gameState, bg) ==
    LET active == activeParticipants(bg)
    IN  stableSort([i \in 1..Len(active) |->
                      [botId |-> active[i],
                       totalTime |-> totalTime(gameState, bg, active[i])]])

\* the index Array.prototype.slice resolves k to in an array of length len
sliceIndex(len, k) == IF k < 0 THEN Max(len + k, 0) ELSE Min(k, len)

qualifiedCount(rankings, level) == Len(rankings) - ELIMINATION_MAP[level]

\* rankings.slice(0, qualifiedCount)
qualified(rankings, level) ==
    SubSeq(rankings, 1, sliceIndex(Len(rankings), qualifiedCount(rankings, level)))

\* rankings.slice(qualifiedCount)
eliminated(rankings, level) ==
    SubSeq(rankings, sliceIndex(Len(rankings), qualifiedCount(rankings, level)) + 1,
           Len(rankings))

\* the BotGame rows after the updates of eliminated and qualified bots
eliminationWrites(bg, rankings, level) ==
    LET q == qualified(rankings, level)
        e == eliminated(rankings, level)
    IN  [b \in DOMAIN bg |->
            IF \E i \in 1..Len(e) : e[i].botId = b
            THEN [bg[b] EXCEPT !.eliminated = TRUE, !.eliminatedAt = level]
            ELSE IF \E i \in 1..Len(q) : q[i].botId = b
                 THEN [bg[b] EXCEPT !.position =
                          CHOOSE i \in 1..Len(q) : q[i].botId = b]
                 ELSE bg[b]]

\* eliminateBots resumes with the game and ranks its active participants
EL_Rank(s) ==
    /\ req[s].pc = "el_await"
    /\ Commit(heap, activeGames,
              [req EXCEPT ![s] =
                 [req[s] EXCEPT !.pc = "el_write", !.gs = Null,
                                !.rankings = eliminationRankings(heap[req[s].gs],
                                                                 botGame)]])
    /\ UNCHANGED <<totalWins, matches, call, gen, arena, game, botGame, now, elimRuns, nmoves>>

\* the updates are written and eliminateBots returns: the match is completed
\* after level 3 when there is a first qualified bot, else the next level starts
EL_Write(s) ==
    /\ req[s].pc = "el_write"
    /\ LET r == req[s]
           q == qualified(r.rankings, r.level)
       IN  /\ botGame' = eliminationWrites(botGame, r.rankings, r.level)
           /\ elimRuns' = [elimRuns EXCEPT ![r.level] = Min(@ + 1, 2)]
           /\ IF r.level >= 3
              THEN IF Len(q) > 0
                   THEN Commit(heap, activeGames,
                               [req EXCEPT ![s] = [r EXCEPT !.pc = "cg_await",
                                                            !.rankings = << >>,
                                                            !.winnerId = q[1].botId]])
                   ELSE Commit(heap, activeGames, [req EXCEPT ![s] = Idle])
              ELSE Commit(heap, activeGames,
                          [req EXCEPT ![s] = [r EXCEPT !.pc = "sl_await",
                                                       !.rankings = << >>,
                                                       !.level = r.level + 1]])
    /\ UNCHANGED <<totalWins, matches, call, gen, arena, game, now, nmoves>>

(***************************************************************************)
(* GameService.startLevel                                                  *)
(***************************************************************************)
endPosition(a) == Pos(a.gridCols - 1, a.gridRows - 1)

newGameState(grid, bg, t) ==
    LET active == {b \in DOMAIN bg : ~bg[b].eliminated}
    IN  [grid |-> grid,
         botPositions |-> [b \in active |-> Pos(0, 0)],
         endPosition |-> endPosition(arena),
         startTime |-> t,
         moveCounters |-> [b \in active |-> 0],
         botFinishTimes |-> << >>]

statusMap(level) ==
    CASE level = 1 -> "LEVEL_1"
      [] level = 2 -> "LEVEL_2"
      [] level = 3 -> "LEVEL_3"

\* startLevel resumes with the game: the grid is generated and the new
\* GameState replaces the entry of the match in activeGames
SL_Start(s) ==
    /\ req[s].pc = "sl_await"
    /\ \E grid \in LevelGrids[arena][req[s].level] :
         LET o == FreeObj(heap, activeGames, req)
         IN  Commit([heap EXCEPT ![o] = newGameState(grid, botGame, now)], o,
                    [req EXCEPT ![s].pc = "sl_status"])
    /\ UNCHANGED <<totalWins, matches, call, gen, arena, game, botGame, now, elimRuns, nmoves>>

\* GameModel.updateStatus(gameId, statusMap[level], level)
SL_Status(s) ==
    /\ req[s].pc = "sl_status"
    /\ game' = [game EXCEPT !.status = statusMap(req[s].level),
                            !.currentLevel = req[s].level]
    /\ Commit(heap, activeGames, [req EXCEPT ![s] = Idle])
    /\ UNCHANGED <<totalWins, matches, call, gen, arena, botGame, now, elimRuns, nmoves>>

(***************************************************************************)
(* GameService.completeGame                                                *)
(***************************************************************************)
\* GameModel.setWinner(gameId, winnerId)
CG_SetWinner(s) ==
    /\ req[s].pc = "cg_await"
    /\ game' = [game EXCEPT !.winnerId = req[s].winnerId, !.status = "COMPLETED"]
    /\ Commit(heap, activeGames, [req EXCEPT ![s].pc = "cg_finish"])
    /\ UNCHANGED <<totalWins, matches, call, gen, arena, botGame, now, elimRuns, nmoves>>

\* a settlement attempt whose failure is not caught (what C18 rules out)
afterSettlementUncaught(settled) == IF settled THEN "return" ELSE "throw"

\* how completeGame leaves the try/catch around the on-chain completion:
\* a rejected ContractService.completeGameOnChain is caught and logged
afterSettlement(settled) == "return"

\* the statistics are written (BotModel.updateStats(winnerId, true, prize)
\* increments the winner's totalWins) and the settlement was attempted, with
\* or without success: activeGames.delete(gameId) and the result is returned
CG_Finish(s, settled) ==
    /\ req[s].pc = "cg_finish"
    /\ game' = [game EXCEPT !.onChain = @ \/ settled]
    /\ totalWins' = [totalWins EXCEPT ![req[s].winnerId] = Min(@ + 1, 2)]
    /\ IF afterSettlement(settled) = "return"
       THEN Commit(heap, Null, [req EXCEPT ![s] = Idle])
       ELSE Commit(heap, activeGames, [req EXCEPT ![s] = Idle])
    /\ UNCHANGED <<matches, call, gen, arena, botGame, now, elimRuns, nmoves>>

(***************************************************************************)
(* agentController.joinGame: GameService.joinGame, then                    *)
(* AgentGameService.autoReadyAndMaybeStart                                 *)
(***************************************************************************)
\* the join and the participant count read by autoReadyAndMaybeStart, taken
\* as one step; the request goes on to startLevel(gameId, 1) at capacity
JoinGame(s, botId) ==
    /\ FreeSlot(s)
    /\ game.status = "WAITING"
    /\ Cardinality(DOMAIN botGame) < MAX_BOTS_PER_GAME
    /\ botId \notin DOMAIN botGame
    /\ botGame' = MapSet(botGame, botId,
                         [position |-> Cardinality(DOMAIN botGame) + 1,
                          collisions |-> 0, eliminated |-> FALSE,
                          eliminatedAt |-> 0])
    /\ IF Cardinality(DOMAIN botGame) + 1 >= MAX_BOTS_PER_GAME
       THEN Commit(heap, activeGames,
                   [req EXCEPT ![s] = [Idle EXCEPT !.pc = "sl_await",
                                                   !.kind = "join", !.level = 1]])
       ELSE UNCHANGED <<req, activeGames, heap>>
    /\ UNCHANGED <<totalWins, matches, call, gen, arena, game, now, elimRuns, nmoves>>

(***************************************************************************)
(* GameController.joinGame: POST /api/game/join                            *)
(***************************************************************************)
\* GameService.joinGame and the answer: nothing else is called, whatever the
\* number of participants has become
CtrlJoinGame(botId) ==
    /\ game.status = "WAITING"
    /\ Cardinality(DOMAIN botGame) < MAX_BOTS_PER_GAME
    /\ botId \notin DOMAIN botGame
    /\ botGame' = MapSet(botGame, botId,
                         [position |-> Cardinality(DOMAIN botGame) + 1,
                          collisions |-> 0, eliminated |-> FALSE,
                          eliminatedAt |-> 0])
    /\ UNCHANGED <<totalWins, matches, call, gen, arena, game, heap, activeGames, now, req, elimRuns, nmoves>>

Directions == {"up", "down", "left", "right"}

Next ==
    \/ Tick
    \/ \E s \in Slots, b \in Bots : JoinGame(s, b)
    \/ \E b \in Bots : CtrlJoinGame(b)
    \/ \E s \in Slots, b \in Agents, d \in Directions : SubmitAgentMove(s, b, d)
    \/ \E s \in Slots, b \in Movers \ Agents, x \in 0..arena.gridCols, y \in 0..arena.gridRows :
         SubmitMove(s, b, x, y)
    \/ \E s \in Slots : PM_Resume(s)
    \/ \E s \in Slots : PM_Collide(s)
    \/ \E s \in Slots : PM_Moved(s)
    \/ \E s \in Slots : PM_SinkFailed(s)
    \/ \E s \in Slots : CLC_Resume(s)
    \/ \E s \in Slots : T_Find(s)
    \/ \E s \in Slots : EL_Rank(s)
    \/ \E s \in Slots : EL_Write(s)
    \/ \E s \in Slots : SL_Start(s)
    \/ \E s \in Slots : SL_Status(s)
    \/ \E s \in Slots : CG_SetWinner(s)
    \/ \E s \in Slots, settled \in BOOLEAN : CG_Finish(s, settled)

Spec == Init /\ [][Next]_vars

(***************************************************************************)
(* Properties                                                              *)
(***************************************************************************)
nonEliminated == {b \in DOMAIN botGame : ~botGame[b].eliminated}

Quiescent == \A s \in Slots : req[s].pc = "idle"

InProcessMove(s) == req[s].pc \in {"pm_await", "pm_collide", "pm_moved"}

StatusRank(status) ==
    CASE status = "WAITING" -> 0
      [] status = "LEVEL_1" -> 1
      [] status = "LEVEL_2" -> 2
      [] status = "LEVEL_3" -> 3
      [] status = "COMPLETED" -> 4

\* C1: under any interleaving of submitAgentMove requests, eliminateBots is
\* applied at most once for each round (no round is eliminated twice).
C1_EliminationOncePerRound == \A l \in 1..3 : elimRuns[l] <= 1

\* C2: at most one processMove is in flight for the match at any time.
C2_OneMoveInFlight == Cardinality({s \in Slots : InProcessMove(s)}) <= 1

\* C3: the number of non-eliminated participants is 10 until the elimination
\* of round 1 is applied, 8 after it, 4 after the elimination of round 2 and
\* 1 after the elimination of round 3.
C3_SurvivorCounts ==
    LET n == Cardinality(nonEliminated)
    IN  /\ (game.status # "WAITING" /\ elimRuns[1] = 0) => n = 10
        /\ (elimRuns[1] > 0 /\ elimRuns[2] = 0) => n = 8
        /\ (elimRuns[2] > 0 /\ elimRuns[3] = 0) => n = 4
        /\ elimRuns[3] > 0 => n = 1

\* C4: when the match is COMPLETED and no request is being handled, the
\* winner is the only non-eliminated participant and the match has no
\* GameState left in activeGames.
C4_WinnerIsSoleSurvivor ==
    (game.status = "COMPLETED" /\ Quiescent)
        => (nonEliminated = {game.winnerId} /\ activeGames = Null)

\* C5: every change of the match status is one step forward along
\* WAITING, LEVEL_1, LEVEL_2, LEVEL_3, COMPLETED.
C5_StatusStepsForward ==
    [][game'.status # game.status
          => StatusRank(game'.status) = StatusRank(game.status) + 1]_vars

\* C6: a finish time recorded in the GameState of the round is never
\* changed while that GameState is the round's state.
C6_FinishTimeImmutable ==
    [][(activeGames # Null /\ activeGames' = activeGames)
          => \A b \in DOMAIN heap[activeGames].botFinishTimes :
                /\ b \in DOMAIN heap'[activeGames].botFinishTimes
                /\ heap'[activeGames].botFinishTimes[b]
                      = heap[activeGames].botFinishTimes[b]]_vars

\* the GameState objects in use: the round's, and those a request still holds
LiveStates == {o \in ObjIds : heap[o] # NoState}

InsideGrid(grid, position) ==
    /\ position.x >= 0 /\ position.x < Cols(grid)
    /\ position.y >= 0 /\ position.y < Rows(grid)

Unfinished(gameState) ==
    (DOMAIN gameState.botPositions) \ (DOMAIN gameState.botFinishTimes)

\* C7: in every GameState, every bot's live cell is inside the grid and is
\* not an obstacle cell.
C7_LiveCellsWalkable ==
    \A o \in LiveStates : \A b \in DOMAIN heap[o].botPositions :
        /\ InsideGrid(heap[o].grid, heap[o].botPositions[b])
        /\ heap[o].grid[heap[o].botPositions[b].y][heap[o].botPositions[b].x] # 1

\* a bot has run into the obstacle of the round's grid and another bot has
\* left the start cell
C7_Witness ==
    /\ activeGames # Null
    /\ \E y \in 0..(arena.gridRows - 1), x \in 0..(arena.gridCols - 1) :
          heap[activeGames].grid[y][x] = 1
    /\ \E b \in DOMAIN botGame : botGame[b].collisions > 0
    /\ \E b \in DOMAIN heap[activeGames].botPositions :
          heap[activeGames].botPositions[b] # Pos(0, 0)

\* C8: away from the start cell, two distinct bots that have not finished the
\* round are never on the same cell.
C8_NoSharedCell ==
    \A o \in LiveStates : \A a \in Unfinished(heap[o]), b \in Unfinished(heap[o]) :
        (a # b /\ heap[o].botPositions[a] = heap[o].botPositions[b])
            => heap[o].botPositions[a] = Pos(0, 0)

\* a bot has entered, before the time limit, the cell a finished bot is on
C8_Witness ==
    /\ activeGames # Null
    /\ \E a \in DOMAIN heap[activeGames].botPositions,
          b \in DOMAIN heap[activeGames].botPositions :
          /\ a # b
          /\ heap[activeGames].botPositions[a] = heap[activeGames].botPositions[b]
          /\ heap[activeGames].botPositions[a] # Pos(0, 0)
          /\ a \in DOMAIN heap[activeGames].botFinishTimes
          /\ heap[activeGames].botFinishTimes[a] < timeLimitMs
          /\ \E s \in Slots : req[s].pc = "pm_moved" /\ req[s].bot = b
                               /\ req[s].gs = activeGames

\* a destination that is not exactly one cardinal step from the live cell
NotOneStep(from, to) == Abs(from.x - to.x) + Abs(from.y - to.y) # 1

\* POST /api/game/:id/move of bot b to (x, y) is a move the claims C10 is
\* about: b has a live cell in the round and (x, y) is not one cardinal step
\* from it or lies outside the grid
BadDestination(b, x, y) ==
    /\ activeGames # Null
    /\ b \in DOMAIN heap[activeGames].botPositions
    /\ \/ NotOneStep(heap[activeGames].botPositions[b], Pos(x, y))
       \/ ~InsideGrid(heap[activeGames].grid, Pos(x, y))

\* C10: a move to a destination that is not one cardinal step from the live
\* cell, or outside the grid, is rejected at once and changes nothing: no
\* GameState, no collision count, and no request is left in progress.
C10_BadMoveChangesNothing ==
    [][\A s \in Slots, b \in Movers \ Agents,
          x \in 0..arena.gridCols, y \in 0..arena.gridRows :
          (BadDestination(b, x, y) /\ SubmitMove(s, b, x, y)) => UNCHANGED vars]_vars

\* a bot that has left the start cell and not finished can at this moment
\* submit both a non-adjacent destination and one outside the grid
C10_Witness ==
    /\ activeGames # Null
    /\ \E b \in (Movers \ Agents) \cap Unfinished(heap[activeGames]) :
          /\ heap[activeGames].botPositions[b] # Pos(0, 0)
          /\ \E x \in 0..arena.gridCols, y \in 0..arena.gridRows :
                processMoveChecks(heap[activeGames], b, Pos(x, y)) = "invalid_move"
          /\ \E x \in 0..arena.gridCols, y \in 0..arena.gridRows :
                processMoveChecks(heap[activeGames], b, Pos(x, y)) = "out_of_bounds"

\* C9: a move that is blocked by another unfinished bot changes nothing in
\* the GameState (live cell, move counter, finish times) nor any collision
\* count.
C9_BlockedChangesNothing ==
    [][\A s \in Slots :
          (/\ PM_Resume(s)
           /\ processMoveCommit(heap[req[s].gs], req[s].bot, req[s].new).out = "blocked")
              => (heap'[req[s].gs] = heap[req[s].gs] /\ botGame' = botGame)]_vars

\* the part of a GameState a move that fails must leave alone
LiveCellsAndFinishes(gameState) ==
    [botPositions |-> gameState.botPositions,
     botFinishTimes |-> gameState.botFinishTimes]

\* C11: a move whose destination is an obstacle cell is reported as a
\* collision, leaves every live cell and finish time of the GameState as they
\* were, and adds exactly one to the collision count of the mover (and
\* nothing to any other).
C11_ObstacleCollision ==
    [][\A s \in Slots :
          /\ (/\ PM_Resume(s)
              /\ heap[req[s].gs].grid[req[s].new.y][req[s].new.x] = 1)
                => /\ req'[s].pc = "pm_collide"
                   /\ LiveCellsAndFinishes(heap'[req[s].gs])
                         = LiveCellsAndFinishes(heap[req[s].gs])
                   /\ botGame' = botGame
          /\ PM_Collide(s)
                => /\ botGame' = [botGame EXCEPT ![req[s].bot].collisions = @ + 1]
                   /\ \A o \in LiveStates :
                         heap'[o] # NoState
                            => LiveCellsAndFinishes(heap'[o]) = LiveCellsAndFinishes(heap[o])
      ]_vars

\* a bot has collided once on its second move: it stands next to the
\* obstacle, unfinished, with one collision counted
C11_Witness ==
    /\ activeGames # Null
    /\ \E b \in Unfinished(heap[activeGames]) :
          /\ botGame[b].collisions = 1
          /\ heap[activeGames].moveCounters[b] = 2
          /\ \E i \in 1..4 :
                LET p == Pos(heap[activeGames].botPositions[b].x + directions[i].dx,
                             heap[activeGames].botPositions[b].y + directions[i].dy)
                IN  /\ InsideGrid(heap[activeGames].grid, p)
                    /\ heap[activeGames].grid[p.y][p.x] = 1

\* C17: when the write of the move record fails, the move does not fail: the
\* GameState ends as it does with a working sink (the finish time recorded
\* when the destination is the goal) and the request goes on as after a
\* returned processMove.
C17_SinkFailureHarmless ==
    [][\A s \in Slots :
          (PM_SinkFailed(s) /\ req[s].pc = "pm_moved")
             => /\ req'[s] = afterProcessMove([req[s] EXCEPT !.gs = Null])
                /\ \/ heap'[req[s].gs] = NoState
                   \/ heap'[req[s].gs]
                        = processMoveFinish(heap[req[s].gs], req[s].bot, req[s].new, now)
      ]_vars

\* C18: when the on-chain completion fails, completeGame finishes as it does
\* otherwise: the Game row keeps its status and winner, the GameState of the
\* match is discarded and the request returns.
C18_SettlementFailureHarmless ==
    [][\A s \in Slots :
          CG_Finish(s, FALSE)
             => /\ game' = game
                /\ activeGames' = Null
                /\ req'[s] = Idle]_vars

\* the match is completed with its winner and without a GameState, though
\* the contract never recorded the completion
C18_Witness ==
    /\ game.status = "COMPLETED"
    /\ game.winnerId # Null
    /\ ~game.onChain
    /\ activeGames = Null
    /\ Quiescent

\* the error a move of bot b must be rejected with before its destination
\* is looked at, or "none"
EarlyError(b) ==
    IF activeGames = Null THEN "state_not_found"
    ELSE IF b \notin DOMAIN heap[activeGames].botPositions THEN "not_active"
    ELSE IF b \in DOMAIN heap[activeGames].botFinishTimes THEN "already_finished"
    ELSE "none"

\* C16: a move for a match without GameState, by a bot without live cell
\* (eliminated, or the stranger) or by a bot that has a finish time fails the
\* checks of processMove with the error of its case (three different errors,
\* none of them the invalid-move or out-of-bounds error) whatever its
\* destination, and no request ever starts to process a move for such a bot.
C16_EarlyRejections ==
    /\ [](\A b \in Movers \cup {Stranger} :
             EarlyError(b) # "none"
                => \A x \in 0..arena.gridCols, y \in 0..arena.gridRows :
                      processMoveChecks(CurrentState, b, Pos(x, y)) = EarlyError(b))
    /\ [][\A s \in Slots :
             (req[s].pc = "idle" /\ req'[s].pc = "pm_await")
                => EarlyError(req'[s].bot) = "none"]_vars

\* in the second round a mover has reached the goal, while the bots
\* eliminated in the first round and the stranger have no live cell
C16_Witness ==
    /\ activeGames # Null
    /\ game.currentLevel = 2
    /\ \E b \in Movers :
          /\ b \in DOMAIN heap[activeGames].botFinishTimes
          /\ heap[activeGames].botFinishTimes[b] < timeLimitMs
    /\ \E b \in DOMAIN botGame :
          botGame[b].eliminated /\ b \notin DOMAIN heap[activeGames].botPositions
    /\ Stranger \notin DOMAIN heap[activeGames].botPositions

(***************************************************************************)
(* The end of a round.  A third round of the arena with obstacles is taken *)
(* at the moment a move has been processed and checkLevelComplete awaits   *)
(* the game: four participants are left, each has reached the goal or has  *)
(* not, the first two have collided some number of times during the match, *)
(* and a second request may be about to count one more collision.          *)
(***************************************************************************)
RoundEndArena == CHOOSE a \in Arenas : a.obstacleCount > 0

RoundEndGrid == CHOOSE g \in LevelGrids[RoundEndArena][3] : TRUE

\* the finish instants a participant may have recorded, the collision counts
\* of the first two participants and the elapsed time of the round
RoundEndFinishTimes == {0, 400}
RoundEndCollisions == {0, 1, 101}
RoundEndElapsed == {500, 1000}

RoundEndBots == 1..4

RoundEndState(finishTimes) ==
    [grid |-> RoundEndGrid,
     botPositions |-> [b \in RoundEndBots |->
                          IF Has(finishTimes, b) THEN endPosition(RoundEndArena)
                          ELSE Pos(0, 0)],
     endPosition |-> endPosition(RoundEndArena),
     startTime |-> 0,
     moveCounters |-> [b \in RoundEndBots |-> IF Has(finishTimes, b) THEN 4 ELSE 0],
     botFinishTimes |-> finishTimes]

InitRoundEnd ==
    /\ arena = RoundEndArena
    /\ game = [status |-> "LEVEL_3", currentLevel |-> 3, winnerId |-> Null,
               onChain |-> FALSE]
    /\ \E c1, c2 \in RoundEndCollisions :
          botGame = [b \in 1..MAX_BOTS_PER_GAME |->
                       [position |-> b,
                        collisions |-> IF b = 1 THEN c1 ELSE IF b = 2 THEN c2 ELSE 0,
                        eliminated |-> b \notin RoundEndBots,
                        eliminatedAt |-> IF b \in RoundEndBots THEN 0
                                         ELSE IF b <= 8 THEN 2 ELSE 1]]
    /\ activeGames = 1
    /\ now \in RoundEndElapsed
    /\ \E F \in SUBSET RoundEndBots : \E ft \in [F -> RoundEndFinishTimes] :
          /\ heap = [o \in ObjIds |-> IF o = 1 THEN RoundEndState(ft) ELSE NoState]
          /\ \E k \in {"agent", "ctrl"}, second \in BOOLEAN :
                /\ second => 2 \notin F
                /\ req = [s \in Slots |->
                            IF s = 1
                            THEN [Idle EXCEPT !.pc = "clc_await", !.kind = k,
                                              !.bot = 1, !.gs = 1]
                            ELSE IF s = 2 /\ second
                                 THEN [Idle EXCEPT !.pc = "pm_collide",
                                                   !.kind = "agent", !.bot = 2,
                                                   !.new = Pos(1, 0), !.gs = 1]
                                 ELSE Idle]
    /\ elimRuns = [l \in 1..3 |-> IF l < 3 THEN 1 ELSE 0]
    /\ nmoves = MaxObstacleMoves
    /\ gen = NoGen
    /\ call = NoCall
    /\ matches = NoMatches
    /\ totalWins = [b \in Bots |-> 0]

NextRoundEnd ==
    \/ \E s \in Slots : PM_Collide(s)
    \/ \E s \in Slots : CLC_Resume(s)
    \/ \E s \in Slots : T_Find(s)
    \/ \E s \in Slots : EL_Rank(s)
    \/ \E s \in Slots : EL_Write(s)
    \/ \E s \in Slots : CG_SetWinner(s)
    \/ \E s \in Slots, settled \in BOOLEAN : CG_Finish(s, settled)

SpecRoundEnd == InitRoundEnd /\ [][NextRoundEnd]_vars

LevelDone(gameState) ==
    \/ nonEliminated \subseteq DOMAIN gameState.botFinishTimes
    \/ now - gameState.startTime >= arena.timeLimit * 1000

\* C13: checkLevelComplete, resuming with the runtime state it looked up,
\* reports completion exactly when every non-eliminated participant has a
\* finish instant or the elapsed time has reached the budget (an agent's
\* request goes on to the level transition exactly then); with no runtime
\* state it reports false at once and the request ends
C13_CompleteExactly ==
    /\ [](\A s \in Slots :
             req[s].pc = "clc_await"
                => (checkLevelComplete(heap[req[s].gs], botGame, now).complete
                       <=> LevelDone(heap[req[s].gs])))
    /\ [][\A s \in Slots :
             /\ (req[s].pc = "clc_await" /\ req[s].kind = "agent" /\ req'[s] # req[s])
                   => (req'[s].pc = "t_find" <=> LevelDone(heap[req[s].gs]))
             /\ (InProcessMove(s) /\ ~InProcessMove(s)' /\ activeGames = Null)
                   => req'[s].pc = "idle"]_vars

\* an agent's request goes on to the level transition before the budget has
\* elapsed, all four participants having reached the goal
C13_Witness ==
    /\ activeGames # Null
    /\ now - heap[activeGames].startTime < arena.timeLimit * 1000
    /\ nonEliminated \subseteq DOMAIN heap[activeGames].botFinishTimes
    /\ Cardinality(nonEliminated) = 4
    /\ \E s \in Slots : req[s].pc = "t_find"

\* C14: when checkLevelComplete resumes with the budget elapsed it reports
\* completion (an agent's request goes on to the level transition), every
\* non-eliminated participant without a finish instant gets the sentinel
\* budget + 999 999 ms, and every instant recorded before is kept
C14_TimeoutSentinel ==
    [][\A s \in Slots :
          (/\ req[s].pc = "clc_await"
           /\ req'[s] # req[s]
           /\ now - heap[req[s].gs].startTime >= arena.timeLimit * 1000)
             => LET o == req[s].gs
                    before == heap[o].botFinishTimes
                IN  /\ req[s].kind = "agent" => req'[s].pc = "t_find"
                    /\ heap'[o] # NoState
                          => /\ nonEliminated \subseteq DOMAIN heap'[o].botFinishTimes
                             /\ \A b \in DOMAIN heap'[o].botFinishTimes :
                                   heap'[o].botFinishTimes[b] =
                                      IF b \in DOMAIN before THEN before[b]
                                      ELSE arena.timeLimit * 1000 + 999999]_vars

\* after a timed-out check, one participant keeps the instant 400 and another
\* carries the sentinel of the one-second budget
C14_Witness ==
    /\ activeGames # Null
    /\ now - heap[activeGames].startTime >= arena.timeLimit * 1000
    /\ \E s \in Slots : req[s].pc = "t_find"
    /\ \E a, b \in nonEliminated :
          /\ Has(heap[activeGames].botFinishTimes, a)
          /\ heap[activeGames].botFinishTimes[a] = 400
          /\ Has(heap[activeGames].botFinishTimes, b)
          /\ heap[activeGames].botFinishTimes[b] = 1000999

\* C15: when eliminateBots ranks a timed-out round, every participant that
\* carries the sentinel stands after every participant that reached the goal
\* within the budget (at an instant after the round's start), whatever their
\* collision counts
C15_SentinelsRankLast ==
    [][\A s \in Slots :
          (req[s].pc = "el_await" /\ req'[s].pc = "el_write")
             => LET finishes == heap[req[s].gs].botFinishTimes
                    rankings == req'[s].rankings
                IN  \A i, j \in 1..Len(rankings) :
                       (/\ Has(finishes, rankings[i].botId)
                        /\ finishes[rankings[i].botId]
                              = arena.timeLimit * 1000 + SENTINEL_EXTRA_MS
                        /\ Has(finishes, rankings[j].botId)
                        /\ finishes[rankings[j].botId] > 0
                        /\ finishes[rankings[j].botId] < arena.timeLimit * 1000)
                          => j < i]_vars

(***************************************************************************)
(* GameService.generateGrid attempt by attempt, called by startLevel for   *)
(* the first round of an arena of any small size and obstacle count.       *)
(***************************************************************************)
MaxGridRows == 3
MaxGridCols == 5
MaxObstacleTarget == 2

GridArenas ==
    { [gridRows |-> r, gridCols |-> c, obstacleCount |-> n, timeLimit |-> 1] :
        r \in 1..MaxGridRows, c \in 1..MaxGridCols, n \in 0..MaxObstacleTarget }

\* the obstacleCount argument of the call and its maxAttempts
genTarget == levelObstacleCount(arena.obstacleCount, 1)
genMaxAttempts == genTarget * 10

genStart ==
    [pc |-> "loop", grid |-> emptyGrid(arena.gridRows, arena.gridCols),
     placed |-> 0, attempts |-> 0]

InitGrid ==
    /\ arena \in GridArenas
    /\ game = [status |-> "WAITING", currentLevel |-> 1, winnerId |-> Null,
               onChain |-> FALSE]
    /\ botGame = [b \in 1..MAX_BOTS_PER_GAME |->
                    [position |-> b, collisions |-> 0,
                     eliminated |-> FALSE, eliminatedAt |-> 0]]
    /\ heap = [o \in ObjIds |-> NoState]
    /\ activeGames = Null
    /\ now = 0
    /\ req = [s \in Slots |-> Idle]
    /\ elimRuns = [l \in 1..3 |-> 0]
    /\ nmoves = 0
    /\ gen = genStart
    /\ call = NoCall
    /\ matches = NoMatches
    /\ totalWins = [b \in Bots |-> 0]

\* a loop condition without the bound on the attempts (what C34 rules out)
inLoopUnbounded == gen.pc = "loop" /\ gen.placed < genTarget

inLoop == gen.pc = "loop" /\ gen.placed < genTarget /\ gen.attempts < genMaxAttempts

\* a loop without the buffer test (what C20 rules out)
nearStartOrEndNever(x, y) == FALSE

\* the buffer test of the loop
nearStartOrEnd(x, y) ==
    (x <= 1 /\ y <= 1) \/ (x >= arena.gridCols - 2 /\ y >= arena.gridRows - 2)

\* the drawn cell is occupied or near the start or the end: attempts++, continue
GG_Reject(x, y) ==
    /\ inLoop
    /\ gen.grid[y][x] # 0 \/ nearStartOrEnd(x, y)
    /\ gen' = [gen EXCEPT !.attempts = @ + 1]
    /\ UNCHANGED <<totalWins, matches, call, arena, game, botGame, heap, activeGames, now, req, elimRuns, nmoves>>

\* the obstacle is placed and a path still exists: placed++, attempts++
GG_Place(x, y) ==
    /\ inLoop
    /\ gen.grid[y][x] = 0 /\ ~nearStartOrEnd(x, y)
    /\ hasPath([gen.grid EXCEPT ![y][x] = 1], Pos(0, 0),
               Pos(arena.gridCols - 1, arena.gridRows - 1))
    /\ gen' = [gen EXCEPT !.grid = [gen.grid EXCEPT ![y][x] = 1],
                          !.placed = @ + 1, !.attempts = @ + 1]
    /\ UNCHANGED <<totalWins, matches, call, arena, game, botGame, heap, activeGames, now, req, elimRuns, nmoves>>

\* the obstacle is placed, blocks every path and is removed again: attempts++
GG_Undo(x, y) ==
    /\ inLoop
    /\ gen.grid[y][x] = 0 /\ ~nearStartOrEnd(x, y)
    /\ ~hasPath([gen.grid EXCEPT ![y][x] = 1], Pos(0, 0),
                Pos(arena.gridCols - 1, arena.gridRows - 1))
    /\ gen' = [gen EXCEPT !.attempts = @ + 1]
    /\ UNCHANGED <<totalWins, matches, call, arena, game, botGame, heap, activeGames, now, req, elimRuns, nmoves>>

\* the loop condition fails: generateGrid returns its grid
GG_Return ==
    /\ gen.pc = "loop"
    /\ ~inLoop
    /\ gen' = [gen EXCEPT !.pc = "returned"]
    /\ UNCHANGED <<totalWins, matches, call, arena, game, botGame, heap, activeGames, now, req, elimRuns, nmoves>>

\* startLevel with the returned grid: without a path it starts over, else the
\* GameState of the round is installed
SL_Install ==
    /\ gen.pc = "returned"
    /\ IF Len(findPath(gen.grid, Pos(0, 0), endPosition(arena))) = 0
       THEN /\ gen' = genStart
            /\ UNCHANGED <<heap, activeGames, req>>
       ELSE /\ gen' = [gen EXCEPT !.pc = "installed"]
            /\ LET o == FreeObj(heap, activeGames, req)
               IN  Commit([heap EXCEPT ![o] = newGameState(gen.grid, botGame, now)],
                          o, req)
    /\ UNCHANGED <<totalWins, matches, call, arena, game, botGame, now, elimRuns, nmoves>>

NextGrid ==
    \/ \E x \in 0..(arena.gridCols - 1), y \in 0..(arena.gridRows - 1) : GG_Reject(x, y)
    \/ \E x \in 0..(arena.gridCols - 1), y \in 0..(arena.gridRows - 1) : GG_Place(x, y)
    \/ \E x \in 0..(arena.gridCols - 1), y \in 0..(arena.gridRows - 1) : GG_Undo(x, y)
    \/ GG_Return
    \/ SL_Install

SpecGrid == InitGrid /\ [][NextGrid]_vars

\* the cells that four-directional steps over in-bounds non-obstacle cells
\* reach from the cells of S
RECURSIVE flood(_, _)
flood(grid, S) ==
    LET cells == { Pos(x, y) : x \in 0..(Cols(grid) - 1), y \in 0..(Rows(grid) - 1) }
        next == { p \in cells :
                    \/ p \in S
                    \/ /\ grid[p.y][p.x] # 1
                       /\ \E q \in S : Abs(p.x - q.x) + Abs(p.y - q.y) = 1 }
    IN  IF next = S THEN S ELSE flood(grid, next)

routeExists(grid) ==
    Pos(Cols(grid) - 1, Rows(grid) - 1) \in flood(grid, {Pos(0, 0)})

\* C19: every grid generateGrid returns has a four-directional route over
\* non-obstacle cells from (0,0) to the goal cell, and the grid of a GameState
\* that startLevel installs has one
C19_GridsHaveRoute ==
    /\ gen.pc \in {"returned", "installed"} => routeExists(gen.grid)
    /\ activeGames # Null => routeExists(heap[activeGames].grid)

\* a 1 x 5 grid was installed without an obstacle after all twenty attempts
\* for two obstacles failed: the only cell outside the buffers cuts the route
C19_Witness ==
    /\ arena.gridRows = 1 /\ arena.gridCols = 5 /\ arena.obstacleCount = 2
    /\ gen.pc = "installed"
    /\ gen.placed = 0 /\ gen.attempts = 20
    /\ activeGames # Null /\ heap[activeGames].grid = gen.grid

obstacleCells(grid) ==
    { p \in [x : 0..(Cols(grid) - 1), y : 0..(Rows(grid) - 1)] : grid[p.y][p.x] = 1 }

\* p lies on q or on one of the eight cells around q
withinOne(p, q) == Abs(p.x - q.x) <= 1 /\ Abs(p.y - q.y) <= 1

\* the contract of a grid returned for R rows, C columns and target N
gridContract(grid, R, C, N) ==
    /\ DOMAIN grid = 0..(R - 1)
    /\ \A y \in 0..(R - 1) : DOMAIN grid[y] = 0..(C - 1)
    /\ grid[0][0] = 2
    /\ grid[R - 1][C - 1] = 3
    /\ Cardinality(obstacleCells(grid)) <= N
    /\ \A p \in obstacleCells(grid) :
          ~withinOne(p, Pos(0, 0)) /\ ~withinOne(p, Pos(C - 1, R - 1))

\* C20 as stated: generateGrid(R, C, N) returns an R x C grid with (0,0)
\* marked start, (R-1, C-1) marked goal and at most N obstacles, none on the
\* start, on the goal or within one cell of either, for every R, C and N
C20_GridContractAnySize ==
    gen.pc = "returned"
       => gridContract(gen.grid, arena.gridRows, arena.gridCols, genTarget)

\* C20, amended: the same for every grid of at least two cells (in a grid of
\* one cell the start is the goal, and the cell carries the goal mark)
C20_GridContract ==
    (gen.pc = "returned" /\ arena.gridRows * arena.gridCols >= 2)
       => gridContract(gen.grid, arena.gridRows, arena.gridCols, genTarget)

\* a 3 x 5 grid is returned with both requested obstacles placed
C20_Witness ==
    /\ gen.pc = "returned"
    /\ arena.gridRows = 3 /\ arena.gridCols = 5
    /\ gen.placed = 2
    /\ Cardinality(obstacleCells(gen.grid)) = 2

(***************************************************************************)
(* PathfindingService called on its own: findPath, getPathLength and       *)
(* hasPath for every small grid of empty and obstacle cells, and the       *)
(* obstacle-free 4 x 4 grid, with every start and end on the grid or just  *)
(* beyond its right or lower edge.                                         *)
(***************************************************************************)
MaxPathRows == 3
MaxPathCols == 3

OpenGrid4 == [y \in 0..3 |-> [x \in 0..3 |-> 0]]

PathGrids ==
    {OpenGrid4} \cup
    UNION { [0..(r - 1) -> [0..(c - 1) -> {0, 1}]] :
              r \in 1..MaxPathRows, c \in 1..MaxPathCols }

PathPositions(grid) == [x : 0..Cols(grid), y : 0..Rows(grid)]

InitPath ==
    /\ arena = CHOOSE a \in Arenas : a.obstacleCount = 0
    /\ game = [status |-> "WAITING", currentLevel |-> 1, winnerId |-> Null,
               onChain |-> FALSE]
    /\ botGame = [b \in 1..(MAX_BOTS_PER_GAME - 1) |->
                    [position |-> b, collisions |-> 0,
                     eliminated |-> FALSE, eliminatedAt |-> 0]]
    /\ heap = [o \in ObjIds |-> NoState]
    /\ activeGames = Null
    /\ now = 0
    /\ req = [s \in Slots |-> Idle]
    /\ elimRuns = [l \in 1..3 |-> 0]
    /\ nmoves = 0
    /\ gen = NoGen
    /\ matches = NoMatches
    /\ totalWins = [b \in Bots |-> 0]
    /\ \E grid \in PathGrids : \E start, end \in PathPositions(grid) :
          call = [NoCall EXCEPT !.pc = "called", !.grid = grid,
                                !.start = start, !.end = end]

CallFindPath ==
    /\ call.pc = "called"
    /\ call' = [call EXCEPT !.pc = "findPath",
                            !.path = findPath(call.grid, call.start, call.end)]
    /\ UNCHANGED <<arena, game, botGame, heap, activeGames, now, req, elimRuns,
                   nmoves, gen, matches, totalWins>>

CallGetPathLength ==
    /\ call.pc = "called"
    /\ call' = [call EXCEPT !.pc = "getPathLength",
                            !.length = getPathLength(call.grid, call.start, call.end)]
    /\ UNCHANGED <<arena, game, botGame, heap, activeGames, now, req, elimRuns,
                   nmoves, gen, matches, totalWins>>

CallHasPath ==
    /\ call.pc = "called"
    /\ call' = [call EXCEPT !.pc = "hasPath",
                            !.has = hasPath(call.grid, call.start, call.end)]
    /\ UNCHANGED <<arena, game, botGame, heap, activeGames, now, req, elimRuns,
                   nmoves, gen, matches, totalWins>>

NextPath == CallFindPath \/ CallGetPathLength \/ CallHasPath

SpecPath == InitPath /\ [][NextPath]_vars

\* p is a cell of the grid that is no obstacle
freeCell(grid, p) ==
    /\ p.x \in 0..(Cols(grid) - 1) /\ p.y \in 0..(Rows(grid) - 1)
    /\ grid[p.y][p.x] # 1

\* end can be reached from start by four-directional steps over free cells
reachable(grid, start, end) ==
    freeCell(grid, start) /\ end \in flood(grid, {start})

\* C21: findPath returns the empty sequence exactly when the end is not
\* reachable from the start (and hasPath is true exactly when it is);
\* otherwise it returns a sequence from start to end of free cells of the
\* grid in which consecutive cells are one cardinal step apart
C21_FindPathContract ==
    /\ call.pc = "findPath"
          => /\ call.path = << >> <=> ~reachable(call.grid, call.start, call.end)
             /\ call.path # << >>
                   => /\ call.path[1] = call.start
                      /\ call.path[Len(call.path)] = call.end
                      /\ \A i \in 1..Len(call.path) : freeCell(call.grid, call.path[i])
                      /\ \A i \in 1..(Len(call.path) - 1) :
                            Abs(call.path[i].x - call.path[i + 1].x)
                               + Abs(call.path[i].y - call.path[i + 1].y) = 1
    /\ call.pc = "hasPath"
          => (call.has <=> reachable(call.grid, call.start, call.end))

\* findPath returns a path of seven cells around a wall: down the left
\* column of a 3 x 3 grid, along its bottom row and up its right column
C21_Witness ==
    /\ call.pc = "findPath"
    /\ Rows(call.grid) = 3 /\ Cols(call.grid) = 3
    /\ call.start = Pos(0, 0) /\ call.end = Pos(2, 0)
    /\ Len(call.path) = 7

\* the number of four-directional steps over free cells of a shortest route
\* from the cells of S (k steps from the start) to end; -1 when there is none
RECURSIVE bfsFrom(_, _, _, _)
bfsFrom(grid, S, end, k) ==
    LET cells == { Pos(x, y) : x \in 0..(Cols(grid) - 1), y \in 0..(Rows(grid) - 1) }
        next == { p \in cells :
                    \/ p \in S
                    \/ /\ grid[p.y][p.x] # 1
                       /\ \E q \in S : Abs(p.x - q.x) + Abs(p.y - q.y) = 1 }
    IN  IF end \in S THEN k
        ELSE IF next = S THEN -1
        ELSE bfsFrom(grid, next, end, k + 1)

bfsDistance(grid, start, end) ==
    IF freeCell(grid, start) THEN bfsFrom(grid, {start}, end, 0) ELSE -1

\* C22: getPathLength is the breadth-first shortest four-directional distance
\* from start to end when the end is reachable and -1 otherwise; on the
\* obstacle-free 4 x 4 grid from (0,0) to (3,3) it is 6
C22_PathLengthShortest ==
    call.pc = "getPathLength"
       => /\ call.length = bfsDistance(call.grid, call.start, call.end)
          /\ (call.grid = OpenGrid4 /\ call.start = Pos(0, 0) /\ call.end = Pos(3, 3))
                => call.length = 6

\* getPathLength has returned 6 for the 4 x 4 scenario
C22_Witness ==
    /\ call.pc = "getPathLength"
    /\ call.grid = OpenGrid4 /\ call.start = Pos(0, 0) /\ call.end = Pos(3, 3)
    /\ call.length = 6

\* C23: at any time the match has a GameState in activeGames when its status
\* is LEVEL_1, LEVEL_2 or LEVEL_3 and has none when its status is WAITING or
\* COMPLETED
C23_StateIffLevelStatus ==
    activeGames # Null <=> game.status \in {"LEVEL_1", "LEVEL_2", "LEVEL_3"}

(***************************************************************************)
(* Two matches of one arena side by side.  The Game table and the          *)
(* activeGames map are keyed by the game id, the BotGame table by the game *)
(* id and the bot id; the same three bots take part in both matches.  Each *)
(* operation of GameService is applied to one game id as one step.         *)
(***************************************************************************)
GameIds == {1, 2}
MatchBots == 1..3
MatchMovers == {1}

\* the moves one bot makes in one round, and the ticks of the clock
MaxMatchMoves == 2
MaxMatchTicks == 2

\* game.participants of GameModel.findById(gameId)
participantsOf(table, gameId) ==
    [b \in { b \in MatchBots : <<gameId, b>> \in DOMAIN table } |-> table[<<gameId, b>>]]

\* the BotGame table after the rows of gameId became bg
withParticipants(table, gameId, bg) ==
    [k \in DOMAIN table |-> IF k[1] = gameId /\ k[2] \in DOMAIN bg THEN bg[k[2]]
                            ELSE table[k]]

\* a collision counted on the bot's rows of every game (what C24 rules out)
handleCollisionEveryGame(table, gameId, botId) ==
    [k \in DOMAIN table |-> IF k[2] = botId
                            THEN [table[k] EXCEPT !.collisions = @ + 1]
                            ELSE table[k]]

\* CollisionService.handleCollision(gameId, botId): the row is found by
\* botId_gameId and its collisions are incremented
handleCollision(table, gameId, botId) ==
    [table EXCEPT ![<<gameId, botId>>].collisions = @ + 1]

InitMatches ==
    /\ arena = RoundEndArena
    /\ game = [status |-> "WAITING", currentLevel |-> 1, winnerId |-> Null,
               onChain |-> FALSE]
    /\ botGame = [b \in 1..(MAX_BOTS_PER_GAME - 1) |->
                    [position |-> b, collisions |-> 0,
                     eliminated |-> FALSE, eliminatedAt |-> 0]]
    /\ heap = [o \in ObjIds |-> NoState]
    /\ activeGames = Null
    /\ now = 0
    /\ req = [s \in Slots |-> Idle]
    /\ elimRuns = [l \in 1..3 |-> 0]
    /\ nmoves = 0
    /\ gen = NoGen
    /\ call = NoCall
    /\ totalWins = [b \in Bots |-> 0]
    /\ matches =
          [game |-> [g \in GameIds |-> [status |-> "WAITING", currentLevel |-> 1]],
           botGame |-> [k \in GameIds \X MatchBots |->
                          [position |-> k[2], collisions |-> 0,
                           eliminated |-> FALSE, eliminatedAt |-> 0]],
           activeGames |-> [g \in GameIds |-> NoState],
           last |-> [op |-> "none", gameId |-> 0]]

MM_Frame == UNCHANGED <<arena, game, botGame, heap, activeGames, req, elimRuns,
                        nmoves, gen, call, totalWins>>

MM_Tick ==
    /\ now < MaxMatchTicks * TickMs
    /\ now' = now + TickMs
    /\ matches' = [matches EXCEPT !.last = [op |-> "tick", gameId |-> 0]]
    /\ MM_Frame

\* startLevel(gameId, level): level 1 of a WAITING match, or the next level
\* after the elimination of the current one
MM_StartLevel(gameId) ==
    LET row == matches.game[gameId]
        bg == participantsOf(matches.botGame, gameId)
        level == IF row.status = "WAITING" THEN 1 ELSE row.currentLevel + 1
    IN  /\ \/ row.status = "WAITING" /\ matches.activeGames[gameId] = NoState
           \/ /\ row.status \in {"LEVEL_1", "LEVEL_2"}
              /\ \E b \in DOMAIN bg : bg[b].eliminatedAt = row.currentLevel
        /\ matches' = [matches EXCEPT
                 !.activeGames[gameId] =
                     newGameState(CHOOSE grid \in LevelGrids[arena][level] :
                                     \E y \in DOMAIN grid : \E x \in DOMAIN grid[y] :
                                        grid[y][x] = 1,
                                  bg, now),
                 !.game[gameId] = [status |-> statusMap(level), currentLevel |-> level],
                 !.last = [op |-> "startLevel", gameId |-> gameId]]
        /\ UNCHANGED now
        /\ MM_Frame

\* processMove(gameId, botId, to) for a move that passes the checks
MM_ProcessMove(gameId, botId, direction) ==
    LET gameState == matches.activeGames[gameId]
        newPosition == translateDirection(gameState.botPositions[botId], direction)
        done == processMoveCommit(gameState, botId, newPosition)
    IN  /\ gameState # NoState
        /\ Has(gameState.botPositions, botId)
        /\ processMoveChecks(gameState, botId, newPosition) = "ok"
        /\ (IF Has(gameState.moveCounters, botId)
            THEN gameState.moveCounters[botId] ELSE 0) < MaxMatchMoves
        /\ matches' = [matches EXCEPT
              !.activeGames[gameId] =
                  IF done.out = "moved"
                  THEN processMoveFinish(done.gs, botId, newPosition, now)
                  ELSE done.gs,
              !.botGame = IF done.out = "collision"
                          THEN handleCollision(matches.botGame, gameId, botId)
                          ELSE matches.botGame,
              !.last = [op |-> "processMove", gameId |-> gameId]]
        /\ UNCHANGED now
        /\ MM_Frame

\* checkLevelComplete(gameId)
MM_CheckLevelComplete(gameId) ==
    LET gameState == matches.activeGames[gameId]
    IN  /\ gameState # NoState
        /\ matches' = [matches EXCEPT
              !.activeGames[gameId] =
                  checkLevelComplete(gameState,
                                     participantsOf(matches.botGame, gameId), now).gs,
              !.last = [op |-> "checkLevelComplete", gameId |-> gameId]]
        /\ UNCHANGED now
        /\ MM_Frame

\* eliminateBots(gameId, game.currentLevel) once the level is complete
MM_EliminateBots(gameId) ==
    LET gameState == matches.activeGames[gameId]
        bg == participantsOf(matches.botGame, gameId)
        level == matches.game[gameId].currentLevel
    IN  /\ gameState # NoState
        /\ checkLevelComplete(gameState, bg, now).complete
        /\ \A b \in DOMAIN bg : bg[b].eliminatedAt # level
        /\ matches' = [matches EXCEPT
              !.botGame = withParticipants(matches.botGame, gameId,
                             eliminationWrites(bg, eliminationRankings(gameState, bg),
                                               level)),
              !.last = [op |-> "eliminateBots", gameId |-> gameId]]
        /\ UNCHANGED now
        /\ MM_Frame

NextMatches ==
    \/ MM_Tick
    \/ \E g \in GameIds : MM_StartLevel(g)
    \/ \E g \in GameIds, b \in MatchMovers, d \in Directions : MM_ProcessMove(g, b, d)
    \/ \E g \in GameIds : MM_CheckLevelComplete(g)
    \/ \E g \in GameIds : MM_EliminateBots(g)

SpecMatches == InitMatches /\ [][NextMatches]_vars

\* C24: a processMove, checkLevelComplete, eliminateBots or startLevel for
\* one game id leaves the GameState, the BotGame rows and the Game row of
\* every other game id unchanged
C24_OtherMatchesUntouched ==
    [][\A h \in GameIds :
          h # matches'.last.gameId
             => /\ matches'.activeGames[h] = matches.activeGames[h]
                /\ matches'.game[h] = matches.game[h]
                /\ \A b \in MatchBots :
                      matches'.botGame[<<h, b>>] = matches.botGame[<<h, b>>]]_vars

\* bot 1 has just collided in match 1 while it also plays match 2, whose
\* round is running and where its collision count is still 0
C24_Witness ==
    /\ matches.last = [op |-> "processMove", gameId |-> 1]
    /\ matches.botGame[<<1, 1>>].collisions = 1
    /\ matches.botGame[<<2, 1>>].collisions = 0
    /\ matches.activeGames[2] # NoState
    /\ matches.game[2].status = "LEVEL_1"

(***************************************************************************)
(* Round completion after the time budget                                  *)
(***************************************************************************)
\* A round whose time budget has just elapsed, with no completion check made
\* yet and no request in progress: round 1 with its ten participants, round 2
\* with the eight survivors or round 3 with four.  Time stands still from
\* then on, so every move submitted to that round arrives after its budget.
survivorsOf(level) == CASE level = 1 -> 10 [] level = 2 -> 8 [] level = 3 -> 4

InitLate ==
    /\ arena \in Arenas
    /\ \E level \in 1..3 :
          /\ game = [status |-> statusMap(level), currentLevel |-> level,
                     winnerId |-> Null, onChain |-> FALSE]
          /\ botGame = [b \in 1..MAX_BOTS_PER_GAME |->
                          [position |-> b, collisions |-> 0,
                           eliminated |-> b > survivorsOf(level),
                           eliminatedAt |-> IF b <= survivorsOf(level) THEN 0
                                            ELSE IF b <= 8 THEN 2 ELSE 1]]
          /\ elimRuns = [l \in 1..3 |-> IF l < level THEN 1 ELSE 0]
          /\ \E grid \in LevelGrids[arena][level] :
                heap = [o \in ObjIds |->
                          IF o = 1 THEN newGameState(grid, botGame, 0) ELSE NoState]
    /\ activeGames = 1
    /\ now = timeLimitMs
    /\ req = [s \in Slots |-> Idle]
    /\ nmoves = 0
    /\ gen = NoGen
    /\ call = NoCall
    /\ matches = NoMatches
    /\ totalWins = [b \in Bots |-> 0]

NextLate ==
    \/ \E s \in Slots, b \in Agents, d \in Directions : SubmitAgentMove(s, b, d)
    \/ \E s \in Slots, b \in Movers \ Agents, x \in 0..arena.gridCols, y \in 0..arena.gridRows :
         SubmitMove(s, b, x, y)
    \/ \E s \in Slots : PM_Resume(s)
    \/ \E s \in Slots : PM_Collide(s)
    \/ \E s \in Slots : PM_Moved(s)
    \/ \E s \in Slots : CLC_Resume(s)
    \/ \E s \in Slots : T_Find(s)
    \/ \E s \in Slots : EL_Rank(s)
    \/ \E s \in Slots : EL_Write(s)
    \/ \E s \in Slots : SL_Start(s)
    \/ \E s \in Slots : SL_Status(s)
    \/ \E s \in Slots : CG_SetWinner(s)
    \/ \E s \in Slots, settled \in BOOLEAN : CG_Finish(s, settled)

SpecLate == InitLate /\ [][NextLate]_vars

\* the handler of a move in slot s returns in this step
MoveHandlerEnds(s) ==
    /\ req[s].kind \in {"agent", "ctrl"}
    /\ req[s].pc # "idle"
    /\ req'[s].pc = "idle"

\* C25: when the handler of a move ends, no round whose time budget has
\* elapsed is running: a round the move arrived in after its budget has been
\* finalized, with the match completed or the next round started
C25_LateMoveFinalizesRound ==
    [][\A s \in Slots :
         MoveHandlerEnds(s) =>
             \/ activeGames' = Null
             \/ now' - heap'[activeGames'].startTime < timeLimitMs]_vars

\* checkLevelComplete has returned true for the running round after its time
\* budget: the finish times it assigns on a timeout are in the GameState
CompletionDetected ==
    /\ activeGames # Null
    /\ \E b \in DOMAIN CurrentState.botFinishTimes :
         CurrentState.botFinishTimes[b] = timeLimitMs + SENTINEL_EXTRA_MS

\* processMove throws for every move any bot can submit
EveryMoveRejected ==
    \A b \in Bots, x \in 0..arena.gridCols, y \in 0..arena.gridRows :
        processMoveChecks(CurrentState, b, Pos(x, y)) # "ok"

\* C26: the match is never left in a round whose completion has been
\* detected with no handler in progress and every move rejected, which is a
\* state no later submission can take it out of
C26_NeverStuckInRound ==
    ~(Quiescent /\ CompletionDetected /\ EveryMoveRejected)

(***************************************************************************)
(* The start of round 1                                                    *)
(***************************************************************************)
\* C27: a match at capacity is not left WAITING once the handler of the join
\* that filled it has ended: no handler in progress, ten participants and
\* status WAITING never hold together
C27_CapacityStartsRound ==
    ~(/\ Quiescent
      /\ game.status = "WAITING"
      /\ Cardinality(DOMAIN botGame) >= MAX_BOTS_PER_GAME)

(***************************************************************************)
(* Match completion                                                        *)
(***************************************************************************)
\* the wins credited by BotModel.updateStats since the match was created
RECURSIVE SumWins(_)
SumWins(S) ==
    IF S = {} THEN 0
    ELSE LET b == CHOOSE x \in S : TRUE IN totalWins[b] + SumWins(S \ {b})

\* C28: completeGame runs and credits a win at most once in a match, whatever
\* the interleaving of the move submissions
C28_CompletedOnce == SumWins(Bots) <= 1

(***************************************************************************)
(* Elimination                                                             *)
(***************************************************************************)
\* the time a participant is to be ranked with: its recorded finish instant
\* plus the penalty of its collisions
effectiveTime(gameState, bg, botId) ==
    gameState.botFinishTimes[botId]
        + bg[botId].collisions * COLLISION_PENALTY_SECONDS * 1000

\* what one application of eliminateBots(level) changes, from the BotGame
\* rows bg to the rows after, for the GameState it ranks
eliminationContract(gameState, bg, after, level) ==
    LET active == {b \in DOMAIN bg : ~bg[b].eliminated}
        out == {b \in active : after[b].eliminated}
    IN  /\ Cardinality(out) = ELIMINATION_MAP[level]
        /\ \A e \in out, q \in active \ out :
              \/ effectiveTime(gameState, bg, e) > effectiveTime(gameState, bg, q)
              \/ /\ effectiveTime(gameState, bg, e) = effectiveTime(gameState, bg, q)
                 /\ bg[e].position > bg[q].position
        /\ \A e \in out : after[e].eliminatedAt = level
        /\ \A b \in (DOMAIN bg) \ out :
              /\ after[b].eliminated = bg[b].eliminated
              /\ after[b].eliminatedAt = bg[b].eliminatedAt

\* eliminateBots is applied for the first time to its level in slot s, with
\* no other request in progress, to participants that all have a finish time
EliminatesAlone(s) ==
    /\ req[s].pc = "el_write"
    /\ req'[s].pc # "el_write"
    /\ elimRuns[req[s].level] = 0
    /\ \A t \in Slots \ {s} : req[t].pc = "idle"
    /\ activeGames # Null
    /\ \A b \in DOMAIN botGame :
          ~botGame[b].eliminated => Has(heap[activeGames].botFinishTimes, b)

\* C29: an application of eliminateBots(level) eliminates exactly
\* ELIMINATION_MAP[level] participants, those with the largest effective
\* times, the later in rank order among equal times; each gets its flag and
\* eliminatedAt = level, and no other participant's elimination flag or
\* level changes
C29_EliminatesSlowest ==
    [][\A s \in Slots :
         EliminatesAlone(s) =>
             eliminationContract(heap[activeGames], botGame, botGame',
                                 req[s].level)]_vars

\* C30: when eliminateBots ranks the participants, the ranking time of every
\* participant with a recorded finish instant t >= 0, the instant 0 included,
\* is t plus 10 000 ms for each collision the participant has counted
C30_EffectiveTimeFromZero ==
    [][\A s \in Slots :
          (req[s].pc = "el_await" /\ req'[s].pc = "el_write")
             => \A i \in 1..Len(req'[s].rankings) :
                   LET e == req'[s].rankings[i]
                       finishes == heap[req[s].gs].botFinishTimes
                   IN  (Has(finishes, e.botId) /\ finishes[e.botId] >= 0)
                          => e.totalTime = effectiveTime(heap[req[s].gs], botGame,
                                                         e.botId)]_vars

(***************************************************************************)
(* eliminateBots at the end of each round                                  *)
(***************************************************************************)
\* checkAndHandleLevelTransition has found round 1, 2 or 3 complete and
\* calls eliminateBots: every participant left has a finish time, the first
\* four a recorded instant or the sentinel, the others the sentinel; the
\* first two may have collided
EliminateFinishTimes == {0, 400, timeLimitMs + SENTINEL_EXTRA_MS}
EliminateCollisions == {0, 1}

InitEliminate ==
    /\ arena = RoundEndArena
    /\ \E level \in 1..3 :
          /\ game = [status |-> statusMap(level), currentLevel |-> level,
                     winnerId |-> Null, onChain |-> FALSE]
          /\ \E c1, c2 \in EliminateCollisions :
                botGame = [b \in 1..MAX_BOTS_PER_GAME |->
                             [position |-> b,
                              collisions |-> IF b = 1 THEN c1
                                             ELSE IF b = 2 THEN c2 ELSE 0,
                              eliminated |-> b > survivorsOf(level),
                              eliminatedAt |-> IF b <= survivorsOf(level) THEN 0
                                               ELSE IF b <= 8 THEN 2 ELSE 1]]
          /\ elimRuns = [l \in 1..3 |-> IF l < level THEN 1 ELSE 0]
          /\ \E ft \in [1..4 -> EliminateFinishTimes] :
                heap = [o \in ObjIds |->
                          IF o = 1
                          THEN [newGameState(RoundEndGrid, botGame, 0) EXCEPT
                                  !.botFinishTimes =
                                     [b \in 1..survivorsOf(level) |->
                                        IF b <= 4 THEN ft[b]
                                        ELSE timeLimitMs + SENTINEL_EXTRA_MS]]
                          ELSE NoState]
          /\ req = [s \in Slots |->
                      IF s = 1
                      THEN [Idle EXCEPT !.pc = "el_await", !.kind = "agent",
                                        !.bot = 1, !.gs = 1, !.level = level]
                      ELSE Idle]
    /\ activeGames = 1
    /\ now = timeLimitMs
    /\ nmoves = 0
    /\ gen = NoGen
    /\ call = NoCall
    /\ matches = NoMatches
    /\ totalWins = [b \in Bots |-> 0]

NextEliminate ==
    \/ \E s \in Slots : EL_Rank(s)
    \/ \E s \in Slots : EL_Write(s)
    \/ \E s \in Slots : SL_Start(s)
    \/ \E s \in Slots : SL_Status(s)
    \/ \E s \in Slots : CG_SetWinner(s)
    \/ \E s \in Slots, settled \in BOOLEAN : CG_Finish(s, settled)

SpecEliminate == InitEliminate /\ [][NextEliminate]_vars

\* the positions one application of eliminateBots leaves the survivors with
positionsContract(gameState, bg, after) ==
    LET left == {b \in DOMAIN after : ~after[b].eliminated}
    IN  /\ {after[b].position : b \in left} = 1..Cardinality(left)
        /\ \A a, b \in left :
              effectiveTime(gameState, bg, a) < effectiveTime(gameState, bg, b)
                 => after[a].position < after[b].position

\* C31: after an application of eliminateBots the positions of the surviving
\* participants are exactly 1..N, N their number, and a survivor with a
\* smaller effective time has the smaller position
C31_SurvivorsReranked ==
    [][\A s \in Slots :
         EliminatesAlone(s) =>
             positionsContract(heap[activeGames], botGame, botGame')]_vars

(***************************************************************************)
(* The start of a round                                                    *)
(***************************************************************************)
\* startLevel installs a GameState in slot s in this step
RoundStarts(s) == req[s].pc = "sl_await" /\ req'[s].pc = "sl_status"

\* the GameState of a round that starts with the BotGame rows bg
freshState(gameState, bg) ==
    LET left == {b \in DOMAIN bg : ~bg[b].eliminated}
    IN  /\ DOMAIN gameState.botPositions = left
        /\ \A b \in left : gameState.botPositions[b] = Pos(0, 0)
        /\ DOMAIN gameState.moveCounters = left
        /\ \A b \in left : gameState.moveCounters[b] = 0
        /\ DOMAIN gameState.botFinishTimes = {}

\* a participant that was eliminated in a round before the current one
FellEarlier(b) ==
    /\ b \in DOMAIN botGame
    /\ botGame[b].eliminated
    /\ botGame[b].eliminatedAt < game.currentLevel

\* C32: when a round starts, activeGames holds a new GameState with exactly
\* the non-eliminated participants, each on (0,0) with move counter 0 and no
\* finish time, in place of the previous one; and at no time does the running
\* GameState hold a cell for a participant eliminated in an earlier round
C32_RoundStartsFresh ==
    /\ [][\A s \in Slots :
            RoundStarts(s) =>
                /\ activeGames' # Null
                /\ activeGames' # activeGames
                /\ freshState(heap'[activeGames'], botGame)]_vars
    /\ [](activeGames # Null =>
             \A b \in DOMAIN CurrentState.botPositions : ~FellEarlier(b))

(***************************************************************************)
(* Committed position changes                                              *)
(***************************************************************************)
\* C33: whenever processMove commits a position change, the participant's
\* new cell is one cardinal step from the cell it had immediately before the
\* commit, whatever other submissions are in progress
C33_CommitsOneStep ==
    [][\A s \in Slots :
         (req[s].pc = "pm_await" /\ req'[s].pc # "pm_await") =>
             LET before == heap[req[s].gs].botPositions[req[s].bot]
                 after == heap'[req[s].gs].botPositions[req[s].bot]
             IN  after # before => heuristic(before, after) = 1]_vars

(***************************************************************************)
(* The placement loop of generateGrid                                      *)
(***************************************************************************)
\* C34: generateGrid never makes more than 10 x N placement attempts for a
\* target of N obstacles, every pass of its loop is one more attempt and can
\* be completed, and it returns a grid with as many obstacles as it counted
\* placed, at most N, and fewer than N only when all 10 x N attempts are used
C34_GenerateGridTerminates ==
    /\ [](gen.pc # "none" =>
             /\ gen.attempts <= 10 * genTarget
             /\ gen.placed <= genTarget)
    /\ [](gen.pc = "returned" =>
             /\ Cardinality(obstacleCells(gen.grid)) = gen.placed
             /\ gen.placed < genTarget => gen.attempts = 10 * genTarget)
    /\ [](gen.pc = "loop" => ENABLED NextGrid)
    /\ [][(gen.pc = "loop" /\ gen'.pc = "loop")
             => gen'.attempts = gen.attempts + 1]_vars

\* a 1 x 4 grid is returned without an obstacle after the ten attempts for
\* one obstacle were used: every cell is the start, the goal or next to one
C34_Witness ==
    /\ arena.gridRows = 1 /\ arena.gridCols = 4 /\ arena.obstacleCount = 1
    /\ gen.pc = "returned"
    /\ gen.placed = 0 /\ gen.attempts = 10

(***************************************************************************)
(* The obstacle target of a round                                          *)
(***************************************************************************)
\* C35: when startLevel starts round 2 or round 3, the obstacle target it
\* computes from the arena's obstacleCount is strictly greater than the
\* target it computes for round 1
C35_LaterRoundsDenser ==
    [][\A s \in Slots :
         (RoundStarts(s) /\ req[s].level \in 2..3) =>
             levelObstacleCount(arena.obstacleCount, req[s].level)
                > levelObstacleCount(arena.obstacleCount, 1)]_vars

(***************************************************************************)
(* GameService.joinGame, await by await                                    *)
(***************************************************************************)
\* the participants a WAITING match may already have when the joins that are
\* followed arrive, the bots that then ask to join, and the arena's entry fee
JoinedBefore == {8, 9}
JoinBots == 9..12
EntryFee == 5

\* a request inside joinGame: what it read from the game is kept with it
joinRequest(pc, kind, botId, participantCount, prizePool) ==
    [pc |-> pc, kind |-> kind, bot |-> botId, new |-> Pos(0, 0), gs |-> Null,
     level |-> 0, rankings |-> << >>, winnerId |-> 0,
     participantCount |-> participantCount, prizePool |-> prizePool]

\* a match created with an empty prize pool that n bots have joined one
\* after the other
InitJoin ==
    /\ arena = RoundEndArena
    /\ \E n \in JoinedBefore :
          /\ game = [status |-> "WAITING", currentLevel |-> 1, winnerId |-> Null,
                     onChain |-> FALSE, entryFee |-> EntryFee,
                     prizePool |-> n * EntryFee]
          /\ botGame = [b \in 1..n |->
                          [position |-> b, collisions |-> 0,
                           eliminated |-> FALSE, eliminatedAt |-> 0]]
    /\ heap = [o \in ObjIds |-> NoState]
    /\ activeGames = Null
    /\ now = 0
    /\ req = [s \in Slots |-> Idle]
    /\ elimRuns = [l \in 1..3 |-> 0]
    /\ nmoves = 0
    /\ gen = NoGen
    /\ call = NoCall
    /\ matches = NoMatches
    /\ totalWins = [b \in Bots |-> 0]

\* POST /api/agent/games/join (kind "agent") or POST /api/game/join (kind
\* "ctrl") for botId: joinGame is called and awaits GameModel.findById
JG_Call(s, kind, botId) ==
    /\ FreeSlot(s)
    /\ req' = [req EXCEPT ![s] = joinRequest("jg_find", kind, botId, 0, 0)]
    /\ UNCHANGED <<totalWins, matches, call, gen, arena, game, botGame, heap, activeGames, now, elimRuns, nmoves>>

\* the game was read: the status, capacity and already-joined checks, and
\* the await of BotModel.findById
JG_Check(s) ==
    /\ req[s].pc = "jg_find"
    /\ IF \/ game.status # "WAITING"
          \/ Cardinality(DOMAIN botGame) >= MAX_BOTS_PER_GAME
          \/ req[s].bot \in DOMAIN botGame
       THEN req' = [req EXCEPT ![s] = Idle]
       ELSE req' = [req EXCEPT ![s] =
                      joinRequest("jg_create", req[s].kind, req[s].bot,
                                  Cardinality(DOMAIN botGame), game.prizePool)]
    /\ UNCHANGED <<totalWins, matches, call, gen, arena, game, botGame, heap, activeGames, now, elimRuns, nmoves>>

\* prisma.botGame.create with position participantCount + 1; the unique index
\* on (botId, gameId) rejects a second row of the same bot
JG_Create(s) ==
    /\ req[s].pc = "jg_create"
    /\ IF req[s].bot \in DOMAIN botGame
       THEN /\ req' = [req EXCEPT ![s] = Idle]
            /\ UNCHANGED botGame
       ELSE /\ botGame' = MapSet(botGame, req[s].bot,
                                 [position |-> req[s].participantCount + 1,
                                  collisions |-> 0, eliminated |-> FALSE,
                                  eliminatedAt |-> 0])
            /\ req' = [req EXCEPT ![s].pc = "jg_pool"]
    /\ UNCHANGED <<totalWins, matches, call, gen, arena, game, heap, activeGames, now, elimRuns, nmoves>>

\* GameModel.updatePrizePool(gameId, Number(game.prizePool) + entryFee), with
\* the prize pool read at the start of joinGame
JG_Pool(s) ==
    /\ req[s].pc = "jg_pool"
    /\ game' = [game EXCEPT !.prizePool = req[s].prizePool + game.entryFee]
    /\ req' = [req EXCEPT ![s].pc = "jg_return"]
    /\ UNCHANGED <<totalWins, matches, call, gen, arena, botGame, heap, activeGames, now, elimRuns, nmoves>>

\* joinGame returns the game read again: GameController.joinGame answers,
\* agentController.joinGame calls autoReadyAndMaybeStart, which reads the game
JG_Return(s) ==
    /\ req[s].pc = "jg_return"
    /\ req' = [req EXCEPT ![s] = IF req[s].kind = "agent"
                                 THEN [req[s] EXCEPT !.pc = "ar_find"]
                                 ELSE Idle]
    /\ UNCHANGED <<totalWins, matches, call, gen, arena, game, botGame, heap, activeGames, now, elimRuns, nmoves>>

\* autoReadyAndMaybeStart resumes with the game: startLevel(gameId, 1) at
\* capacity
AR_Check(s) ==
    /\ req[s].pc = "ar_find"
    /\ req' = [req EXCEPT ![s] =
                 IF Cardinality(DOMAIN botGame) >= MAX_BOTS_PER_GAME
                 THEN [Idle EXCEPT !.pc = "sl_await", !.kind = "join", !.level = 1]
                 ELSE Idle]
    /\ UNCHANGED <<totalWins, matches, call, gen, arena, game, botGame, heap, activeGames, now, elimRuns, nmoves>>

NextJoin ==
    \/ \E s \in Slots, k \in {"agent", "ctrl"}, b \in JoinBots : JG_Call(s, k, b)
    \/ \E s \in Slots : JG_Check(s)
    \/ \E s \in Slots : JG_Create(s)
    \/ \E s \in Slots : JG_Pool(s)
    \/ \E s \in Slots : JG_Return(s)
    \/ \E s \in Slots : AR_Check(s)
    \/ \E s \in Slots : SL_Start(s)
    \/ \E s \in Slots : SL_Status(s)

SpecJoin == InitJoin /\ [][NextJoin]_vars

\* C36: a match never has more than MAX_BOTS_PER_GAME participants, whatever
\* the interleaving of the joinGame calls
C36_CapacityRespected == Cardinality(DOMAIN botGame) <= MAX_BOTS_PER_GAME

\* C37: when no joinGame call is in progress, the prize pool of the match is
\* the arena's entry fee times the number of its participants
C37_PrizePoolMatchesEntrants ==
    Quiescent => game.prizePool = game.entryFee * Cardinality(DOMAIN botGame)

(***************************************************************************)
(* Finishers and the goal cell                                             *)
(***************************************************************************)
\* processMove has put botId on its new cell in the GameState o and awaits
\* the move record, after which it records the finish
FinishPending(o, botId) ==
    \E s \in Slots : req[s].pc = "pm_moved" /\ req[s].gs = o /\ req[s].bot = botId

\* C38: in the running GameState a participant whose finish time was recorded
\* by reaching the goal is on the goal cell, and a participant on the goal
\* cell has a finish time unless the move that took it there is still being
\* processed
C38_FinishersOnGoal ==
    activeGames # Null =>
        \A b \in DOMAIN CurrentState.botPositions :
            /\ (/\ Has(CurrentState.botFinishTimes, b)
                /\ CurrentState.botFinishTimes[b] # timeLimitMs + SENTINEL_EXTRA_MS)
                  => CurrentState.botPositions[b] = CurrentState.endPosition
            /\ (/\ CurrentState.botPositions[b] = CurrentState.endPosition
                /\ ~FinishPending(activeGames, b))
                  => Has(CurrentState.botFinishTimes, b)

(***************************************************************************)
(* Moves after the time budget                                             *)
(***************************************************************************)
\* C39: every finish time recorded by reaching the goal is below the time
\* budget of its round, and a step of processMove on a GameState whose budget
\* has elapsed changes no cell and records no finish
C39_NoFinishAfterBudget ==
    /\ [](\A o \in ObjIds :
             heap[o] # NoState =>
                 \A b \in DOMAIN heap[o].botFinishTimes :
                     heap[o].botFinishTimes[b] # timeLimitMs + SENTINEL_EXTRA_MS
                        => heap[o].botFinishTimes[b] < timeLimitMs)
    /\ [][\A s \in Slots :
            (/\ InProcessMove(s)
             /\ req'[s].pc # req[s].pc
             /\ now - heap[req[s].gs].startTime >= timeLimitMs)
               => /\ heap'[req[s].gs].botPositions = heap[req[s].gs].botPositions
                  /\ heap'[req[s].gs].botFinishTimes
                        = heap[req[s].gs].botFinishTimes]_vars

\* ---------------------------------------------------------------------------
\* agentService.getOptimalPath: the route of a participant as directions
\* ---------------------------------------------------------------------------

OptimalArena == [gridRows |-> 4, gridCols |-> 4, obstacleCount |-> 2, timeLimit |-> 1]

OptimalLevel == 2

\* the callers: a live participant and a participant eliminated after round 1
OptimalCallers == {1, 9}

stepDirectionsMirrored(from, to) ==
    LET dx == to.x - from.x
        dy == to.y - from.y
    IN  IF dx = 1 THEN <<"left">>
        ELSE IF dx = -1 THEN <<"right">>
        ELSE IF dy = 1 THEN <<"up">>
        ELSE IF dy = -1 THEN <<"down">>
        ELSE << >>

\* one turn of the conversion loop: what it pushes for path[i] -> path[i + 1]
stepDirections(from, to) ==
    LET dx == to.x - from.x
        dy == to.y - from.y
    IN  IF dx = 1 THEN <<"right">>
        ELSE IF dx = -1 THEN <<"left">>
        ELSE IF dy = 1 THEN <<"down">>
        ELSE IF dy = -1 THEN <<"up">>
        ELSE << >>

\* the conversion loop over i = 0 .. path.length - 2
RECURSIVE pathDirections(_)
pathDirections(path) ==
    IF Len(path) <= 1 THEN << >>
    ELSE stepDirections(path[1], path[2]) \o pathDirections(Tail(path))

\* the value getOptimalPath returns, or the error it throws
getOptimalPath(gameState, botId) ==
    IF gameState = NoState
    THEN [error |-> "Game state not found. Level may not have started."]
    ELSE IF botId \notin DOMAIN gameState.botPositions
    THEN [error |-> "Bot is not active in this game"]
    ELSE IF botId \in DOMAIN gameState.botFinishTimes
    THEN [path |-> << >>, directions |-> << >>, message |-> "Already at finish"]
    ELSE LET path == findPath(gameState.grid, gameState.botPositions[botId],
                              gameState.endPosition)
         IN  IF Len(path) = 0
             THEN [path |-> << >>, directions |-> << >>, message |-> "No path found"]
             ELSE [path |-> path,
                   directions |-> pathDirections(path),
                   stepsRemaining |-> Len(pathDirections(path))]

\* GameService.getGameState(gameId)
currentGameState == IF activeGames = Null THEN NoState ELSE heap[activeGames]

\* a second round on a generated 4x4 grid: participant 1 stands on any cell it
\* can have walked to from the start, with a finish entry or not when that cell
\* is the goal; the round's state is registered or not
InitOptimal ==
    /\ arena = OptimalArena
    /\ game = [status |-> statusMap(OptimalLevel), currentLevel |-> OptimalLevel,
               winnerId |-> Null, onChain |-> FALSE]
    /\ botGame = [b \in 1..MAX_BOTS_PER_GAME |->
                    [position |-> b, collisions |-> 0,
                     eliminated |-> b > survivorsOf(OptimalLevel - 1),
                     eliminatedAt |-> IF b > survivorsOf(OptimalLevel - 1)
                                      THEN 1 ELSE 0]]
    /\ elimRuns = [l \in 1..3 |-> IF l < OptimalLevel THEN 1 ELSE 0]
    /\ \E grid \in generateGrid(OptimalArena.gridRows, OptimalArena.gridCols,
                                levelObstacleCount(OptimalArena.obstacleCount,
                                                   OptimalLevel)) :
       \E p \in flood(grid, {Pos(0, 0)}) :
       \E finished \in BOOLEAN :
          /\ finished => p = endPosition(OptimalArena)
          /\ heap = [o \in ObjIds |->
                       IF o = 1
                       THEN [newGameState(grid, botGame, 0) EXCEPT
                               !.botPositions[1] = p,
                               !.botFinishTimes =
                                  IF finished THEN (1 :> 400) ELSE << >>]
                       ELSE NoState]
    /\ activeGames \in {Null, 1}
    /\ req = [s \in Slots |-> Idle]
    /\ now = 500
    /\ nmoves = 0
    /\ gen = NoGen
    /\ call = NoCall
    /\ matches = NoMatches
    /\ totalWins = [b \in Bots |-> 0]

CallGetOptimalPath(botId) ==
    /\ call.pc = "none"
    /\ call' = [pc |-> "getOptimalPath", bot |-> botId,
                result |-> getOptimalPath(currentGameState, botId)]
    /\ UNCHANGED <<arena, game, botGame, heap, activeGames, now, req, elimRuns,
                   nmoves, gen, matches, totalWins>>

NextOptimal == \E botId \in OptimalCallers : CallGetOptimalPath(botId)

SpecOptimal == InitOptimal /\ [][NextOptimal]_vars

\* the cells visited when the directions are applied one at a time with
\* translateDirection, the starting cell included
RECURSIVE walk(_, _)
walk(position, dirs) ==
    IF dirs = << >> THEN <<position>>
    ELSE <<position>> \o walk(translateDirection(position, Head(dirs)),
                               Tail(dirs))

\* C40: for a live participant without a finish entry, the directions returned
\* by getOptimalPath, applied one at a time with translateDirection from the
\* participant's live cell, visit exactly the cells of the returned path and end
\* on the goal, and stepsRemaining is the number of path cells minus one
C40_DirectionsFollowPath ==
    (/\ call.pc = "getOptimalPath"
     /\ currentGameState # NoState
     /\ call.bot \in DOMAIN currentGameState.botPositions
     /\ call.bot \notin DOMAIN currentGameState.botFinishTimes)
    => LET r == call.result
           cur == currentGameState.botPositions[call.bot]
       IN  /\ DOMAIN r = {"path", "directions", "stepsRemaining"}
           /\ Len(r.path) >= 1
           /\ walk(cur, r.directions) = r.path
           /\ r.path[Len(r.path)] = currentGameState.endPosition
           /\ r.stepsRemaining = Len(r.path) - 1

\* a route that has to turn back: it starts with a step to the left
C40_Witness ==
    /\ call.pc = "getOptimalPath"
    /\ currentGameState # NoState
    /\ call.bot \in DOMAIN currentGameState.botPositions
    /\ call.bot \notin DOMAIN currentGameState.botFinishTimes
    /\ "stepsRemaining" \in DOMAIN call.result
    /\ call.result.stepsRemaining >= 4
    /\ call.result.directions[1] = "left"

=============================================================================
